---- MODULE Spec2Model ----
(***************************************************************************)
(* State-machine model of RepoRelay: the GitHub alert mirror and its sync  *)
(* cursor (dojo/github_collector/alerts_collector.py and the two           *)
(* transports), the projection of alerts onto findings                     *)
(* (dojo/github_collector/findings_converter.py) and the auto-triage       *)
(* engine (dojo/auto_triage).                                              *)
(*                                                                         *)
(* Conventions.  Python None is NoTime for a timestamp, NoId for a foreign *)
(* key and NoneStr for a string.  A string whose content does not matter   *)
(* is a record [text, len]: the first len characters of the text named     *)
(* text, so that slicing s[:n] is Truncate(s, n).  Time is counted in      *)
(* minutes.                                                                *)
(***************************************************************************)
EXTENDS Integers, Sequences, FiniteSets, TLC

VARIABLES
    now,            \* timezone.now()
    pool,           \* the alert records the remote can return: <<repo, alert_type, alert_data>>
    repository,     \* Repository rows, by primary key
    cursor,         \* GitHubAlertSync rows (repository.alert_sync_status), by repository
    alerts,         \* GitHubAlert rows
    nextAlertId,    \* next primary key of GitHubAlert
    findings,       \* Finding rows
    nextFindingId,  \* next primary key of Finding
    engagements,    \* Engagement rows
    tests,          \* Test rows
    pc,             \* where the running sync_repository_alerts call stands ("idle": none runs)
    call,           \* the locals of that call: repository, force, result, the exception caught
    batch,          \* the loop of sync_organization_alerts: repositories left, results so far
    quota,          \* the rate limit status of the remote
    fresh,          \* history: ids of the alerts not changed since they were last projected
    lastProj,       \* history: what the last create_or_update_finding call did
    projectedKeys,  \* history: the dedup keys projected so far
    returned,       \* history: per mirror key, the alert last upserted and whether it changed the row
    trace,          \* history: what the last sync_repository_alerts call did
    rules,          \* AutoTriageEngine.rules
    triaged,        \* the finding triage_single_finding was last called with, and what it returned
    triageFields,   \* the triage fields of the Finding rows, by finding
    stats,          \* AutoTriageEngine.stats
    applied,        \* history: what the last _apply_triage_to_finding call did
    tierInput,      \* the signals and days_since_last_commit of the repository classified
    tierLog,        \* the inputs and results of the classify calls made on the instance
    scored,         \* the last _calculate_confidence call: its arguments and what it returned
    classifier,     \* the TierClassifier instance: tier, confidence_score, reasons
    classified,     \* what the last classify call returned
    proc,           \* the create_or_update_finding calls in progress, by worker
    remoteRepos,    \* the organization on the remote: updatedAt, by repository name
    products,       \* Product rows, by name
    productTypes,   \* Product_Type rows: their names
    col,            \* the sync_all_repositories call: where it stands, its stats, its history
    detInput,       \* the repository a SignalDetector is made for, and the sources that fail
    detected,       \* what the last detect_all_signals call did
    paths,          \* what the sync of the repository over each transport classified
    epssFields,     \* cve, active, epss_score and epss_percentile of the Finding rows, by finding
    epssRemote,     \* the scores the EPSS API has, by CVE
    upd,            \* EPSSUpdater.stats and the history of the update runs
    findingFacts    \* what the conditions of TRIAGE_RULES read of a finding, by finding

dbVars == <<repository, cursor, alerts, nextAlertId, findings, nextFindingId, engagements, tests>>
syncVars == <<pc, call, batch, quota, trace>>
projVars == <<fresh, lastProj, projectedKeys>>
triageVars == <<rules, triaged, triageFields, stats, applied>>
tierVars == <<tierInput, tierLog, scored, classifier, classified>>
collectVars == <<remoteRepos, products, productTypes, col>>
detVars == <<detInput, detected, paths>>
epssVars == <<epssFields, epssRemote, upd>>
factVars == <<findingFacts>>
vars == <<now, pool, dbVars, syncVars, projVars, returned, triageVars, tierVars, proc, collectVars, detVars, epssVars, factVars>>

----------------------------------------------------------------------------
(* Values *)

NoTime == -(1)
NoId == -(1)
NoneStr == [text |-> "None", len |-> -(1)]
EmptyStr == [text |-> "", len |-> 0]

Min(a, b) == IF a <= b THEN a ELSE b

\* s[:n]
Truncate(s, n) == [s EXCEPT !.len = Min(s.len, n)]

Str(text, len) == [text |-> text, len |-> len]

\* GitHubAlert.DEPENDABOT, GitHubAlert.CODEQL, GitHubAlert.SECRET_SCANNING
AlertTypes == {"dependabot", "codeql", "secret_scanning"}

\* the states create_or_update_finding has a branch for
AlertStates == {"open", "fixed", "dismissed"}

\* A timestamp as the remote sends it: absent, ISO 8601 with or without the
\* 'Z' suffix, or a string that is no ISO 8601 timestamp.
Raw(kind, t) == [kind |-> kind, t |-> t]
RawNull == Raw("null", NoTime)

----------------------------------------------------------------------------
(* alerts_collector.py: the alert mirror *)

\* An exception: raised is FALSE when nothing was raised, msg is str(e).
NoError == [raised |-> FALSE, msg |-> EmptyStr]
Raise(msg) == [raised |-> TRUE, msg |-> msg]

\* _parse_datetime: None for an absent or malformed timestamp
parse_datetime(raw) == IF raw.kind \in {"iso", "isoZ"} THEN raw.t ELSE NoTime

\* lengths of the GitHubAlert columns the collector slices to
TitleMax == 500

\* _build_alert_fields: the mutable columns of a GitHubAlert from a parsed
\* alert.  alert_data.get("title", "")[:500] raises TypeError when the remote
\* sent a null title.
MutantBuildAlertFieldsKeepsState(row, d) ==
    [row EXCEPT !.severity = d.severity,
                !.title = Truncate(d.title, TitleMax),
                !.created_at = parse_datetime(d.created_at),
                !.updated_at = parse_datetime(d.updated_at),
                !.dismissed_at = parse_datetime(d.dismissed_at),
                !.fixed_at = parse_datetime(d.fixed_at)]

build_alert_fields(row, d) ==
    [row EXCEPT !.state = d.state,
                !.severity = d.severity,
                !.title = Truncate(d.title, TitleMax),
                !.created_at = parse_datetime(d.created_at),
                !.updated_at = parse_datetime(d.updated_at),
                !.dismissed_at = parse_datetime(d.dismissed_at),
                !.fixed_at = parse_datetime(d.fixed_at)]

\* what evaluating _build_alert_fields(alert_data) raises
build_alert_fields_error(d) ==
    IF d.title = NoneStr
    THEN Raise(Str("'NoneType' object is not subscriptable", 38))
    ELSE NoError

\* the row GitHubAlert.objects.get_or_create creates before its defaults are set
BlankAlert(id, r, t, number) ==
    [id |-> id, repository |-> r, alert_type |-> t, github_alert_id |-> number,
     state |-> "", severity |-> "", title |-> EmptyStr,
     created_at |-> NoTime, updated_at |-> NoTime, dismissed_at |-> NoTime,
     fixed_at |-> NoTime, finding |-> NoId]

\* the lookup of get_or_create in _create_or_update_alert
MutantAlertLookupByState(rows, r, t, d) ==
    {a \in rows : a.repository = r /\ a.alert_type = t
                  /\ a.github_alert_id = d.github_alert_id /\ a.state = d.state}

\* objects.create in the place of get_or_create: no row is looked up
MutantAlertLookupNothing(rows, r, t, d) == {}

AlertLookup(rows, r, t, d) ==
    {a \in rows : a.repository = r /\ a.alert_type = t
                  /\ a.github_alert_id = d.github_alert_id}

\* _create_or_update_alert, one transaction: the rows after it, the next free
\* primary key and what it raised.
create_or_update_alert(rows, nid, r, t, d) ==
    LET err == build_alert_fields_error(d)
        matches == AlertLookup(rows, r, t, d)
    IN  IF err.raised
        THEN [error |-> err, rows |-> rows, nextId |-> nid]
        ELSE IF d.error.raised
        THEN [error |-> d.error, rows |-> rows, nextId |-> nid]
        ELSE IF matches = {}
        THEN [error |-> NoError,
              rows |-> rows \cup {build_alert_fields(BlankAlert(nid, r, t, d.github_alert_id), d)},
              nextId |-> nid + 1]
        ELSE IF Cardinality(matches) = 1
        THEN LET old == CHOOSE a \in matches : TRUE
             IN  [error |-> NoError,
                  rows |-> (rows \ {old}) \cup {build_alert_fields(old, d)},
                  nextId |-> nid]
        ELSE [error |-> Raise(Str("get() returned more than one GitHubAlert", 40)),
              rows |-> rows, nextId |-> nid]

\* the loop of _sync_dependabot_alerts, _sync_codeql_alerts and
\* _sync_secret_scanning_alerts over the parsed alerts: it stops at the first
\* alert whose upsert raises, with the earlier upserts committed.  count is
\* the length of the list of upserted alerts.
RECURSIVE upsert_all(_, _, _, _, _, _)
upsert_all(rows, nid, r, t, data, count) ==
    IF data = <<>>
    THEN [error |-> NoError, rows |-> rows, nextId |-> nid, count |-> count]
    ELSE LET one == create_or_update_alert(rows, nid, r, t, Head(data))
         IN  IF one.error.raised
             THEN [error |-> one.error, rows |-> rows, nextId |-> nid, count |-> count]
             ELSE upsert_all(one.rows, one.nextId, r, t, Tail(data), count + 1)

----------------------------------------------------------------------------
(* The transports: graphql_client.py and rest_client.py *)

\* how a request to the remote fails: the first three are transient
TransientKinds == {"timeout", "http5xx", "ratelimit"}
FailureKinds == TransientKinds \cup {"http404", "graphql_errors"}

\* per_page of _make_paginated_request
PerPage == 100

RECURSIVE Flatten(_)
Flatten(pages) == IF pages = <<>> THEN <<>> ELSE Head(pages) \o Flatten(Tail(pages))

\* get_dependabot_alerts against a remote that answers with the pages `pages`
\* and fails request number failAt (0: no request fails).  Each except
\* branch returns the alerts parsed so far.
get_dependabot_alerts(pages, failAt, kind) ==
    IF failAt = 0 \/ failAt > Len(pages) THEN Flatten(pages)
    ELSE Flatten(SubSeq(pages, 1, failAt - 1))

\* _make_paginated_request with a 404 handler that repeats the request,
\* which the remote then answers
RECURSIVE MutantPaginatedRequestRetriesNotFound(_, _, _, _, _)
MutantPaginatedRequestRetriesNotFound(list, failAt, kind, page, all_results) ==
    LET first == (page - 1) * PerPage + 1
        results == SubSeq(list, first, Min(page * PerPage, Len(list)))
    IN  IF failAt = page /\ kind # "http404"
        THEN [raised |-> TRUE, results |-> <<>>]
        ELSE IF results = <<>>
        THEN [raised |-> FALSE, results |-> all_results]
        ELSE IF Len(results) < PerPage
        THEN [raised |-> FALSE, results |-> all_results \o results]
        ELSE MutantPaginatedRequestRetriesNotFound(list, failAt, kind, page + 1,
                                                   all_results \o results)

\* _make_paginated_request against a feed holding `list`: a 404 ends the loop
\* with the results so far, every other failure is raised.
RECURSIVE make_paginated_request(_, _, _, _, _)
make_paginated_request(list, failAt, kind, page, all_results) ==
    LET first == (page - 1) * PerPage + 1
        results == SubSeq(list, first, Min(page * PerPage, Len(list)))
    IN  IF failAt = page
        THEN IF kind = "http404"
             THEN [raised |-> FALSE, results |-> all_results]
             ELSE [raised |-> TRUE, results |-> <<>>]
        ELSE IF results = <<>>
        THEN [raised |-> FALSE, results |-> all_results]
        ELSE IF Len(results) < PerPage
        THEN [raised |-> FALSE, results |-> all_results \o results]
        ELSE make_paginated_request(list, failAt, kind, page + 1, all_results \o results)

\* get_codeql_alerts and get_secret_scanning_alerts: every exception of the
\* paginated request is caught and an empty list returned
get_rest_alerts(list, failAt, kind) ==
    LET res == make_paginated_request(list, failAt, kind, 1, <<>>)
    IN  IF res.raised THEN <<>> ELSE res.results

\* the fetch of one taxonomy from an answer of the remote
fetch_alerts(alert_type, ans) ==
    IF alert_type = "dependabot"
    THEN get_dependabot_alerts(ans.pages, ans.failAt, ans.kind)
    ELSE get_rest_alerts(Flatten(ans.pages), ans.failAt, ans.kind)

----------------------------------------------------------------------------
(* alerts_collector.py: the sync cursor *)

\* the order of the three syncs in sync_repository_alerts
Taxonomies == <<"dependabot", "codeql", "secret_scanning">>

\* SyncResult(repository_id, repository_name)
NewResult ==
    [dependabot_count |-> 0, codeql_count |-> 0, secret_scanning_count |-> 0,
     errors |-> <<>>, success |-> TRUE]

\* the GitHubAlertSync row get_or_create creates
NewCursor ==
    [dependabot_last_sync |-> NoTime, codeql_last_sync |-> NoTime,
     secret_scanning_last_sync |-> NoTime,
     dependabot_alerts_fetched |-> 0, codeql_alerts_fetched |-> 0,
     secret_scanning_alerts_fetched |-> 0,
     full_sync_completed |-> FALSE,
     last_sync_error |-> EmptyStr, last_sync_error_at |-> NoTime]

Max(a, b) == IF a >= b THEN a ELSE b

\* GitHubAlertSync.last_successful_sync: the latest of the three last-sync
\* times, None when none is set
last_successful_sync(c) ==
    Max(c.dependabot_last_sync, Max(c.codeql_last_sync, c.secret_scanning_last_sync))

\* MIN_SYNC_INTERVAL = timedelta(hours=1), in minutes
MIN_SYNC_INTERVAL == 60

\* _should_sync
MutantShouldSyncAfterInterval(r) ==
    IF r \notin DOMAIN cursor THEN TRUE
    ELSE IF last_successful_sync(cursor[r]) = NoTime THEN TRUE
    ELSE now - last_successful_sync(cursor[r]) > MIN_SYNC_INTERVAL

should_sync(r) ==
    IF r \notin DOMAIN cursor THEN TRUE
    ELSE IF last_successful_sync(cursor[r]) = NoTime THEN TRUE
    ELSE now - last_successful_sync(cursor[r]) >= MIN_SYNC_INTERVAL

\* _parse_repository_identifier: github_url and name are kept as their parts
\* between '/' (github_url after rstrip('/')), the empty string as <<>>;
\* (None, None) is <<"", "">>.
parse_repository_identifier(repo) ==
    IF repo.github_url # <<>> /\ Len(repo.github_url) >= 2
    THEN <<repo.github_url[Len(repo.github_url) - 1], repo.github_url[Len(repo.github_url)]>>
    ELSE IF Len(repo.name) >= 2 /\ Len(repo.name) = 2
    THEN <<repo.name[1], repo.name[2]>>
    ELSE <<"", "">>

\* the "Update sync tracker" block without last_sync_error = ""
MutantUpdateTrackerKeepsError(c, result, t) ==
    [c EXCEPT !.dependabot_last_sync = t,
              !.codeql_last_sync = t,
              !.secret_scanning_last_sync = t,
              !.dependabot_alerts_fetched = result.dependabot_count,
              !.codeql_alerts_fetched = result.codeql_count,
              !.secret_scanning_alerts_fetched = result.secret_scanning_count,
              !.full_sync_completed = TRUE]

\* the "Update sync tracker" block of sync_repository_alerts
update_tracker(c, result, t) ==
    [c EXCEPT !.dependabot_last_sync = t,
              !.codeql_last_sync = t,
              !.secret_scanning_last_sync = t,
              !.dependabot_alerts_fetched = result.dependabot_count,
              !.codeql_alerts_fetched = result.codeql_count,
              !.secret_scanning_alerts_fetched = result.secret_scanning_count,
              !.full_sync_completed = TRUE,
              !.last_sync_error = EmptyStr]

\* the "Update repository alert counts" block
update_repository(repo, result, t) ==
    [repo EXCEPT !.dependabot_alert_count = result.dependabot_count,
                 !.codeql_alert_count = result.codeql_count,
                 !.secret_scanning_alert_count = result.secret_scanning_count,
                 !.last_alert_sync = t]

\* the length of GitHubAlertSync.last_sync_error
ErrorMax == 1000

\* the except block of sync_repository_alerts, on the cursor
MutantExceptTrackerNoSlice(c, e, t) ==
    [c EXCEPT !.last_sync_error = e.msg, !.last_sync_error_at = t]

MutantExceptTrackerAdvances(c, e, t) ==
    [c EXCEPT !.last_sync_error = Truncate(e.msg, ErrorMax), !.last_sync_error_at = t,
              !.dependabot_last_sync = t]

except_tracker(c, e, t) ==
    [c EXCEPT !.last_sync_error = Truncate(e.msg, ErrorMax), !.last_sync_error_at = t]

\* the except block, on the result
except_result(result, e) ==
    [result EXCEPT !.success = FALSE, !.errors = Append(@, e.msg)]

\* result.<taxonomy>_count = len(alerts)
set_count(result, alert_type, n) ==
    CASE alert_type = "dependabot" -> [result EXCEPT !.dependabot_count = n]
      [] alert_type = "codeql" -> [result EXCEPT !.codeql_count = n]
      [] alert_type = "secret_scanning" -> [result EXCEPT !.secret_scanning_count = n]

\* RateLimitStatus.graphql_percent_used > 80 or rest_percent_used > 80, with
\* (1 - remaining / limit) * 100 > 80 written without division
should_pause(q) ==
    \/ q.graphql_limit > 0 /\ 5 * q.graphql_remaining < q.graphql_limit
    \/ q.rest_limit > 0 /\ 5 * q.rest_remaining < q.rest_limit

\* _should_pause_for_rate_limits: a placeholder that reads no rate limit
should_pause_for_rate_limits == FALSE

\* the sequences without repetition of the elements of S
RECURSIVE Perms(_)
Perms(S) ==
    IF S = {} THEN {<<>>}
    ELSE UNION {{<<x>> \o p : p \in Perms(S \ {x})} : x \in S}

\* the slice queryset[:limit], taken only when limit is truthy
Limit(seq, limit) == IF limit = 0 THEN seq ELSE SubSeq(seq, 1, Min(limit, Len(seq)))

\* _get_repositories_for_sync: the lists the query can return.  order_by
\* leaves the place of the rows without last_alert_sync (first or last) to
\* the database, and the order of rows with equal last_alert_sync open.
get_repositories_for_sync(force, limit) ==
    LET selected == {r \in DOMAIN repository :
                        /\ repository[r].github_repo_id # NoId
                        /\ repository[r].github_repo_id # 0
                        /\ (~force => \/ repository[r].last_alert_sync = NoTime
                                       \/ repository[r].last_alert_sync < now - MIN_SYNC_INTERVAL)}
        Key(r, nullsFirst) ==
            IF repository[r].last_alert_sync = NoTime
            THEN (IF nullsFirst THEN -(1) ELSE now + 1)
            ELSE repository[r].last_alert_sync
    IN  {Limit(p, limit) : p \in {q \in Perms(selected) :
            \E nullsFirst \in BOOLEAN :
                \A i, j \in 1..Len(q) : i < j => Key(q[i], nullsFirst) <= Key(q[j], nullsFirst)}}

----------------------------------------------------------------------------
(* findings_converter.py: the projection of an alert onto a finding *)

\* str.lower() on the severity strings the model draws
Lower(s) ==
    CASE s \in {"CRITICAL", "Critical"} -> "critical"
      [] s \in {"HIGH", "High"} -> "high"
      [] s \in {"MODERATE", "Moderate"} -> "moderate"
      [] s \in {"MEDIUM", "Medium"} -> "medium"
      [] s \in {"LOW", "Low"} -> "low"
      [] s \in {"WARNING", "Warning"} -> "warning"
      [] s \in {"ERROR", "Error"} -> "error"
      [] s \in {"NOTE", "Note"} -> "note"
      [] s \in {"INFO", "Info"} -> "info"
      [] s \in {"UNKNOWN", "Unknown"} -> "unknown"
      [] OTHER -> s

\* _map_severity without .lower()
MutantMapSeverityCaseSensitive(github_severity) ==
    LET severity == IF github_severity = "" THEN "info" ELSE github_severity
    IN  CASE severity = "critical" -> "Critical"
          [] severity = "high" -> "High"
          [] severity \in {"moderate", "medium"} -> "Medium"
          [] severity \in {"low", "warning"} -> "Low"
          [] severity = "error" -> "High"
          [] OTHER -> "Info"

\* SEVERITY_MAP and _map_severity
map_severity(github_severity) ==
    LET severity == IF github_severity = "" THEN "info" ELSE Lower(github_severity)
    IN  CASE severity = "critical" -> "Critical"
          [] severity = "high" -> "High"
          [] severity = "moderate" -> "Medium"
          [] severity = "medium" -> "Medium"
          [] severity = "low" -> "Low"
          [] severity = "warning" -> "Low"
          [] severity = "error" -> "High"
          [] severity = "note" -> "Info"
          [] severity = "info" -> "Info"
          [] OTHER -> "Info"

\* TEST_TYPE_DEPENDABOT, TEST_TYPE_CODEQL, TEST_TYPE_SECRET_SCANNING
test_type_map(alert_type) ==
    CASE alert_type = "dependabot" -> "GitHub Dependabot"
      [] alert_type = "codeql" -> "GitHub CodeQL"
      [] alert_type = "secret_scanning" -> "GitHub Secret Scanning"

\* the key of Engagement.objects.get_or_create in _get_or_create_engagement
EngagementOf(repo) == [product |-> repo.product, name |-> repo.name]

\* the key of Test.objects.get_or_create in _get_or_create_test
TestOf(repo, alert_type) ==
    [engagement |-> EngagementOf(repo), test_type |-> test_type_map(alert_type)]

\* _build_unique_id: "github-{alert_type}-{github_repo_id}-{github_alert_id}".
\* The alert type holds no '-' and the repository id is a number, so the
\* string determines its three parts: it is kept as the tuple of them.
MutantUniqueIdWithoutNumber(a) ==
    <<"github", a.alert_type, repository[a.repository].github_repo_id, "">>

build_unique_id(a) ==
    <<"github", a.alert_type, repository[a.repository].github_repo_id, a.github_alert_id>>

\* the length of Finding.title
FindingTitleMax == 511

DayMinutes == 24 * 60

\* datetime.date()
DateOf(t) == t \div DayMinutes

\* the title of the finding: the alert's title behind the prefix of its
\* taxonomy ("Unknown package: ", nothing, "Exposed Secret: "), cut to 511
FindingTitle(a) ==
    LET prefix == CASE a.alert_type = "dependabot" -> 17
                    [] a.alert_type = "codeql" -> 0
                    [] a.alert_type = "secret_scanning" -> 16
    IN  [text |-> <<a.alert_type, a.title.text>>,
         len |-> Min(prefix + a.title.len, FindingTitleMax)]

\* Finding(): the column defaults of a new finding
NewFinding ==
    [id |-> NoId, test |-> <<>>, unique_id_from_tool |-> <<>>,
     title |-> [text |-> <<>>, len |-> 0], severity |-> "", date |-> NoTime,
     vuln_id_from_tool |-> "",
     active |-> TRUE, verified |-> FALSE, is_mitigated |-> FALSE,
     mitigated |-> NoTime, mitigated_by |-> "None", risk_accepted |-> FALSE,
     false_p |-> FALSE, out_of_scope |-> FALSE]

\* convert_alert_to_finding_fields and the setattr loop over its result
convert_alert_to_finding_fields(f, a, test) ==
    [f EXCEPT !.title = FindingTitle(a),
              !.severity = IF a.alert_type = "secret_scanning" THEN "Critical"
                           ELSE map_severity(a.severity),
              !.unique_id_from_tool = build_unique_id(a),
              !.vuln_id_from_tool = a.github_alert_id,
              !.test = <<test>>,
              !.date = IF a.created_at # NoTime THEN DateOf(a.created_at)
                       ELSE DateOf(now)]

\* _apply_state_to_finding
MutantApplyStateFixedStaysActive(f, a) ==
    IF a.state = "open"
    THEN [f EXCEPT !.active = TRUE, !.verified = FALSE, !.is_mitigated = FALSE,
                   !.mitigated = NoTime, !.mitigated_by = "None",
                   !.risk_accepted = FALSE, !.false_p = FALSE, !.out_of_scope = FALSE]
    ELSE IF a.state = "fixed"
    THEN [f EXCEPT !.is_mitigated = TRUE,
                   !.mitigated = IF a.fixed_at # NoTime THEN a.fixed_at ELSE now,
                   !.mitigated_by = "system_user"]
    ELSE IF a.state = "dismissed"
    THEN [f EXCEPT !.active = FALSE, !.risk_accepted = TRUE]
    ELSE f

apply_state_to_finding(f, a) ==
    IF a.state = "open"
    THEN [f EXCEPT !.active = TRUE, !.verified = FALSE, !.is_mitigated = FALSE,
                   !.mitigated = NoTime, !.mitigated_by = "None",
                   !.risk_accepted = FALSE, !.false_p = FALSE, !.out_of_scope = FALSE]
    ELSE IF a.state = "fixed"
    THEN [f EXCEPT !.active = FALSE, !.is_mitigated = TRUE,
                   !.mitigated = IF a.fixed_at # NoTime THEN a.fixed_at ELSE now,
                   !.mitigated_by = "system_user"]
    ELSE IF a.state = "dismissed"
    THEN [f EXCEPT !.active = FALSE, !.risk_accepted = TRUE]
    ELSE f

\* the lookup Finding.objects.get(test=test, unique_id_from_tool=unique_id)
MutantFindingLookupNever(fs, test, unique_id) == {}

FindingLookup(fs, test, unique_id) ==
    {f \in fs : f.test = <<test>> /\ f.unique_id_from_tool = unique_id}

\* create_or_update_finding from the result `existing` of its lookup on:
\* what the transaction writes to the database db = [alerts, findings,
\* nextFindingId, engagements, tests], the returned (finding, created) and
\* what it raised.  A raise rolls the transaction back.
save_finding(db, a, existing) ==
    LET repo == repository[a.repository]
        test == TestOf(repo, a.alert_type)
        created == existing = {}
        old == IF created THEN NewFinding ELSE CHOOSE f \in existing : TRUE
        mapped == apply_state_to_finding(convert_alert_to_finding_fields(old, a, test), a)
        saved == IF created THEN [mapped EXCEPT !.id = db.nextFindingId] ELSE mapped
    IN  IF repo.product = NoId
        THEN [error |-> Raise(Str("Repository has no product", 25)), db |-> db,
              finding |-> NoId, created |-> FALSE]
        ELSE IF Cardinality(existing) > 1
        THEN [error |-> Raise(Str("get() returned more than one Finding", 36)), db |-> db,
              finding |-> NoId, created |-> FALSE]
        ELSE [error |-> NoError,
              db |-> [alerts |-> {IF x.id = a.id THEN [x EXCEPT !.finding = saved.id] ELSE x
                                  : x \in db.alerts},
                      findings |-> {f \in db.findings : f.id # saved.id} \cup {saved},
                      nextFindingId |-> IF created THEN db.nextFindingId + 1
                                        ELSE db.nextFindingId,
                      engagements |-> db.engagements \cup {EngagementOf(repo)},
                      tests |-> db.tests \cup {test}],
              finding |-> saved.id, created |-> created]

\* create_or_update_finding, one transaction that runs alone
create_or_update_finding(db, a) ==
    save_finding(db, a, FindingLookup(db.findings, TestOf(repository[a.repository], a.alert_type),
                                      build_unique_id(a)))

\* the queryset GitHubAlert.objects.filter(repository=repository), in
\* primary-key order
RECURSIVE AlertsById(_)
AlertsById(rows) ==
    IF rows = {} THEN <<>>
    ELSE LET first == CHOOSE a \in rows : \A b \in rows : a.id <= b.id
         IN  <<first>> \o AlertsById(rows \ {first})

\* what one create_or_update_finding call adds to the history variables
ProjHistory(h, db, a, res) ==
    IF res.error.raised THEN h
    ELSE [fresh |-> h.fresh \cup {a.id},
          keys |-> h.keys \cup {<<a.alert_type, repository[a.repository].github_repo_id,
                                  a.github_alert_id>>},
          done |-> h.done \cup {a.id},
          repeat |-> h.repeat \/ a.id \in h.fresh,
          ok |-> h.ok /\ (a.id \in h.fresh =>
                            /\ ~res.created
                            /\ res.finding = a.finding
                            /\ res.db.findings = db.findings)]

\* the loop of sync_repository_findings: each alert of the queryset is
\* projected in its own transaction and an exception is counted, not raised
RECURSIVE sync_repository_findings(_, _, _)
sync_repository_findings(db, queryset, h) ==
    IF queryset = <<>> THEN [db |-> db, h |-> h]
    ELSE LET a == Head(queryset)
             res == create_or_update_finding(db, a)
         IN  sync_repository_findings(res.db, Tail(queryset), ProjHistory(h, db, a, res))

----------------------------------------------------------------------------
(* The projection of the mirror onto findings as a state machine *)

\* the most GitHubAlert rows the projection specifications hold
MaxProjAlerts == 2
\* the clock of the projection specifications stops here
MaxProjTime == 1440

ProjDB ==
    [alerts |-> alerts, findings |-> findings, nextFindingId |-> nextFindingId,
     engagements |-> engagements, tests |-> tests]

SetProjDB(db) ==
    /\ alerts' = db.alerts
    /\ findings' = db.findings
    /\ nextFindingId' = db.nextFindingId
    /\ engagements' = db.engagements
    /\ tests' = db.tests

\* what the upserts of the alerts `data` add to the history of returned alerts
RECURSIVE Returned(_, _, _, _)
Returned(h, r, t, data) ==
    IF data = <<>> THEN h
    ELSE LET k == <<r, t, Head(data).github_alert_id>>
             changed == IF k \in DOMAIN h THEN h[k].data # Head(data) ELSE FALSE
         IN  Returned((k :> [data |-> Head(data), changed |-> changed]) @@ h,
                      r, t, Tail(data))

\* the remote returns, for repository r and taxonomy t, alerts it returned
\* before and each as it was when it was last upserted
Repeats(h, r, t, data) ==
    /\ data # <<>>
    /\ \A i \in 1..Len(data) :
          LET k == <<r, t, data[i].github_alert_id>>
          IN  k \in DOMAIN h /\ h[k].data = data[i]

\* A sync cycle upserts one alert the remote returned (_create_or_update_alert).
MirrorUpsert(r, t, d) ==
    /\ <<r, t, d>> \in pool
    /\ LET res == create_or_update_alert(alerts, nextAlertId, r, t, d)
       IN  /\ ~res.error.raised
           /\ Cardinality(res.rows) <= MaxProjAlerts
           /\ alerts' = res.rows
           /\ nextAlertId' = res.nextId
           /\ fresh' = {a.id : a \in alerts \cap res.rows} \cap fresh
    /\ returned' = Returned(returned, r, t, <<d>>)
    /\ UNCHANGED <<now, pool, repository, cursor, findings, nextFindingId,
                   engagements, tests, syncVars, lastProj, projectedKeys, triageVars, tierVars, proc, collectVars, detVars, epssVars, factVars>>

\* create_or_update_finding(alert)
Project(a) ==
    /\ a \in alerts
    /\ LET res == create_or_update_finding(ProjDB, a)
           h == ProjHistory([fresh |-> fresh, keys |-> projectedKeys,
                             done |-> {}, repeat |-> FALSE, ok |-> TRUE], ProjDB, a, res)
       IN  /\ SetProjDB(res.db)
           /\ fresh' = h.fresh
           /\ projectedKeys' = h.keys
           /\ lastProj' = [repeat |-> h.repeat, ok |-> h.ok, at |-> now, alerts |-> h.done]
    /\ UNCHANGED <<now, pool, repository, cursor, nextAlertId, syncVars, returned, triageVars, tierVars, proc, collectVars, detVars, epssVars, factVars>>

\* sync_repository_findings(repository)
SyncRepositoryFindings(r) ==
    /\ r \in DOMAIN repository
    /\ LET res == sync_repository_findings(
                      ProjDB, AlertsById({a \in alerts : a.repository = r}),
                      [fresh |-> fresh, keys |-> projectedKeys, done |-> {},
                       repeat |-> FALSE, ok |-> TRUE])
       IN  /\ SetProjDB(res.db)
           /\ fresh' = res.h.fresh
           /\ projectedKeys' = res.h.keys
           /\ lastProj' = [repeat |-> res.h.repeat, ok |-> res.h.ok, at |-> now,
                           alerts |-> res.h.done]
    /\ UNCHANGED <<now, pool, repository, cursor, nextAlertId, syncVars, returned, triageVars, tierVars, proc, collectVars, detVars, epssVars, factVars>>

\* a day passes
ProjTick ==
    /\ now + DayMinutes <= MaxProjTime
    /\ now' = now + DayMinutes
    /\ UNCHANGED <<pool, dbVars, syncVars, projVars, returned, triageVars, tierVars, proc, collectVars, detVars, epssVars, factVars>>

\* a Repository row
Repo(name, github_url, github_repo_id, product) ==
    [name |-> name, github_url |-> github_url, github_repo_id |-> github_repo_id,
     product |-> product, dependabot_alert_count |-> 0, codeql_alert_count |-> 0,
     secret_scanning_alert_count |-> 0, last_alert_sync |-> NoTime]

\* a parsed alert as the transports return it
AlertData(number, state, severity, title, created_at, fixed_at) ==
    [github_alert_id |-> number, state |-> state, severity |-> severity,
     title |-> title, created_at |-> created_at, updated_at |-> RawNull,
     dismissed_at |-> RawNull, fixed_at |-> fixed_at, error |-> NoError]

TestOrgUrl == <<"https:", "", "github.com", "test-org", "test-repo">>

\* alert number 1 in every state, with and without its timestamps
RichData ==
    {AlertData("1", s, "high", Str("A", 9), c, f) :
        s \in AlertStates, c \in {RawNull, Raw("isoZ", 0)}, f \in {RawNull, Raw("iso", 60)}}

\* the result triage_single_finding returns when no rule matched; a reason
\* is a tuple of the pieces of its text
DefaultResult ==
    [decision |-> "PENDING",
     reason |-> <<"No auto-triage rule matched - requires manual review">>,
     rule_name |-> "default", confidence |-> 0]

NoTriage == [finding |-> NoId, result |-> DefaultResult]

\* self.stats of a new engine
NewStats ==
    [total_findings |-> 0, dismissed |-> 0, escalated |-> 0, accepted_risk |-> 0,
     pending |-> 0, errors |-> 0]

\* the passes of _triage_findings_queryset a new engine has made: none.
\* passes counts the findings the loop took, raised those whose pass ended in
\* the except branch, written[d] those whose stored decision became d.
NoRun ==
    [passes |-> 0, raised |-> 0,
     written |-> [DISMISS |-> 0, ESCALATE |-> 0, ACCEPT_RISK |-> 0, PENDING |-> 0]]

NoApply ==
    [finding |-> NoId, data |-> DefaultResult, outcome |-> "none", settled |-> {},
     run |-> NoRun]

\* no call of the engine's batch methods was made
InitNoApply ==
    /\ stats = NewStats
    /\ applied = NoApply

\* days_since_last_commit = None
NoDays == -(1)

\* tier 'archived'
ArchivedTier == 0
\* no _calculate_confidence call was made
NoConfidence == [called |-> FALSE, signals |-> {}, tier |-> 4, score |-> 0]

\* TierClassifier(): self.tier, self.confidence_score, self.reasons
NewClassifier == [tier |-> 4, confidence_score |-> 0, reasons |-> <<>>]

\* no classify call has returned
NoClassification ==
    [called |-> FALSE, tier |-> 4, business_criticality |-> "", confidence_score |-> 0,
     reasons |-> <<>>]

\* no repository is being classified
InitNoClassifier ==
    /\ tierInput = [signals |-> {}, days |-> NoDays]
    /\ tierLog = <<>>
    /\ scored = NoConfidence
    /\ classifier = NewClassifier
    /\ classified = NoClassification

\* the workers that may run create_or_update_finding at the same time
Workers == {1, 2}

\* a worker that is not inside create_or_update_finding
NoWork == [pc |-> "idle", alert |-> NoId, existing |-> {}, columns |-> <<>>]

\* no worker is inside create_or_update_finding
InitNoRace == proc = [w \in Workers |-> NoWork]

\* stats of sync_all_repositories
NewRepoStats == [total_repos |-> 0, updated |-> 0, created |-> 0, errors |-> 0, skipped |-> 0]

\* no sync_all_repositories call runs and none has run.  listed, log,
\* bulkFailedAt, restFailed, fellBack, done and retry are history; retry
\* holds the repositories whose sync failed in the incremental run over the
\* bulk transport that returned last and that did not change on the remote
\* since.
NoCollect ==
    [pc |-> "idle", incremental |-> FALSE, use_graphql |-> FALSE, queue |-> <<>>,
     cut |-> FALSE, stats |-> NewRepoStats, listed |-> <<>>, log |-> <<>>,
     bulkFailedAt |-> 0, restFailed |-> FALSE, fellBack |-> FALSE, done |-> FALSE,
     retry |-> {}]

\* no organization is collected
InitNoCollector ==
    /\ remoteRepos = <<>>
    /\ products = <<>>
    /\ productTypes = {}
    /\ col = NoCollect

\* a repository without files, settings, commits, pull requests and readme
NoFacts ==
    [tree |-> {}, environments |-> 0, releases |-> "none", protected |-> FALSE,
     commits |-> "none", pulls |-> "none", readme |-> 0, vulnerability_alert |-> FALSE]

\* the repository was synced over neither transport
NoPaths == [t \in {"bulk", "rest"} |-> [called |-> FALSE, signals |-> {}, business_criticality |-> ""]]

\* detect_all_signals was not called
NoDetection == [called |-> FALSE, raised |-> FALSE, signals |-> <<>>]

\* no SignalDetector was made
InitNoDetector ==
    /\ detInput = [facts |-> NoFacts, failing |-> {}]
    /\ detected = NoDetection
    /\ paths = NoPaths

\* EPSSUpdater.stats after __init__
NewEpssStats ==
    [total_findings |-> 0, findings_with_cve |-> 0, unique_cves |-> 0, scores_fetched |-> 0,
     findings_updated |-> 0, findings_unchanged |-> 0, findings_new_score |-> 0,
     significant_changes |-> 0, errors |-> 0]

\* no update run was made.  Everything but stats is history: the number of
\* runs, whether the last run raised, the fields before it, the scores it
\* fetched, the findings it saved, those whose save failed, those it counted
\* as significant and those it passed to re-triage, how its lookup failed,
\* its active_only, the number of scores the API has published, and whether
\* the run fetched and saved everything while the API has published nothing
\* since.
NoUpdate ==
    [stats |-> NewEpssStats, runs |-> 0, raised |-> FALSE, before |-> <<>>,
     fetched |-> <<>>, written |-> {}, failed |-> {}, significant |-> {},
     to_triage |-> <<>>, trigger |-> FALSE, lookup |-> "none", active_only |-> FALSE,
     changes |-> 0, settled |-> FALSE]

\* no EPSSUpdater was made
InitNoUpdater ==
    /\ epssFields = <<>>
    /\ epssRemote = <<>>
    /\ upd = NoUpdate

\* no finding is there for the default rules to read
InitNoFindingFacts == findingFacts = <<>>

\* no engine was constructed
InitNoEngine ==
    /\ rules = <<>>
    /\ triaged = NoTriage
    /\ triageFields = <<>>
    /\ InitNoApply

\* RateLimitStatus of a remote with its whole quota left
QuotaLimit == 5000

FullQuota ==
    [graphql_remaining |-> QuotaLimit, graphql_limit |-> QuotaLimit,
     rest_remaining |-> QuotaLimit, rest_limit |-> QuotaLimit]

NoCall == [repository |-> NoId, force |-> FALSE, result |-> NewResult, error |-> NoError]

NoBatch ==
    [active |-> FALSE, force |-> FALSE, selected |-> <<>>, queue |-> <<>>,
     results |-> <<>>, log |-> <<>>]

NoTrace ==
    [repository |-> NoId, force |-> FALSE, eligible |-> FALSE, outcome |-> "none",
     fetched |-> <<>>, lens |-> <<>>, repeat |-> <<>>, notFound |-> <<>>,
     transient |-> FALSE, advanced |-> FALSE, failedAt |-> NoTime]

\* no sync runs and none has run
InitSyncIdle ==
    /\ pc = "idle"
    /\ call = NoCall
    /\ batch = NoBatch
    /\ quota = FullQuota
    /\ trace = NoTrace
    /\ returned = <<>>

InitDB ==
    /\ now = 0
    /\ cursor = <<>>
    /\ alerts = {}
    /\ nextAlertId = 1
    /\ findings = {}
    /\ nextFindingId = 1
    /\ engagements = {}
    /\ tests = {}

\* the tables of the database db
SetInitDB(db) ==
    /\ alerts = db.alerts
    /\ findings = db.findings
    /\ nextFindingId = db.nextFindingId
    /\ engagements = db.engagements
    /\ tests = db.tests

InitProjHistory ==
    /\ fresh = {}
    /\ lastProj = [repeat |-> FALSE, ok |-> TRUE, at |-> NoTime, alerts |-> {}]
    /\ projectedKeys = {}

\* one repository, one taxonomy, one alert that goes through every state
InitProj ==
    /\ repository = [r \in {1} |-> Repo(<<"test-org", "test-repo">>, TestOrgUrl, 123456, 1)]
    /\ \E t \in AlertTypes : pool = {<<1, t, d>> : d \in RichData}
    /\ InitDB
    /\ InitSyncIdle
    /\ InitNoEngine
    /\ InitProjHistory
    /\ InitNoClassifier
    /\ InitNoRace
    /\ InitNoCollector
    /\ InitNoDetector
    /\ InitNoUpdater
    /\ InitNoFindingFacts

NextProj ==
    \/ \E x \in pool : MirrorUpsert(x[1], x[2], x[3])
    \/ \E a \in alerts : Project(a)
    \/ \E r \in DOMAIN repository : SyncRepositoryFindings(r)
    \/ ProjTick

SpecProj == InitProj /\ [][NextProj]_vars

----------------------------------------------------------------------------
(* Claims about the projection *)

FindingOf(a) == CHOOSE f \in findings : f.id = a.finding

StateTriple(f) == <<f.active, f.is_mitigated, f.risk_accepted>>

\* C2: after any sequence of state changes of an alert, each followed by a
\* projection, the finding's (active, is_mitigated, risk_accepted) is the one
\* the alert's current state gives a finding with no history.
FindingStateDeterminedByAlertState ==
    \A a \in alerts :
        (a.id \in fresh /\ a.finding # NoId /\ a.state \in AlertStates)
            => StateTriple(FindingOf(a)) = StateTriple(apply_state_to_finding(NewFinding, a))

\* C3: create_or_update_finding called again on an alert that did not change
\* since its last projection returns the same finding id and created=False
\* and leaves every field of every finding as it was.
ProjectionIdempotent == lastProj.repeat => lastProj.ok

\* the alerts the last projection call wrote to their findings and that
\* did not change since
LastProjected == {a \in alerts : a.id \in lastProj.alerts \cap fresh /\ a.finding # NoId}

\* C15: whatever the finding held before, one projection sets, for alert
\* state 'open', active=True, is_mitigated=False, mitigated=None and
\* risk_accepted=False; for 'fixed', active=False, is_mitigated=True and
\* mitigated = the alert's fixed_at when it has one and the time of the call
\* otherwise; for 'dismissed', active=False and risk_accepted=True.
StateProjectionSetsFields ==
    \A a \in LastProjected :
        LET f == FindingOf(a)
        IN  /\ a.state = "open" =>
                  /\ f.active
                  /\ ~f.is_mitigated
                  /\ f.mitigated = NoTime
                  /\ ~f.risk_accepted
            /\ a.state = "fixed" =>
                  /\ ~f.active
                  /\ f.is_mitigated
                  /\ f.mitigated = IF a.fixed_at # NoTime THEN a.fixed_at ELSE lastProj.at
            /\ a.state = "dismissed" =>
                  /\ ~f.active
                  /\ f.risk_accepted

\* an alert dismissed earlier was projected as fixed, without a fixed_at,
\* a day after the clock started
FixedAfterDismissedProjected ==
    \E a \in LastProjected :
        /\ a.state = "fixed"
        /\ a.fixed_at = NoTime
        /\ FindingOf(a).risk_accepted
        /\ FindingOf(a).mitigated = lastProj.at
        /\ lastProj.at > 0

----------------------------------------------------------------------------
(* Every state the remote reports *)

\* the lower-cased states the transports store: vulnerabilityAlerts states
\* OPEN, FIXED, DISMISSED, AUTO_DISMISSED; code scanning open, dismissed,
\* fixed; secret scanning open, resolved
RemoteStates(alert_type) ==
    CASE alert_type = "dependabot" -> {"open", "fixed", "dismissed", "auto_dismissed"}
      [] alert_type = "codeql" -> {"open", "dismissed", "fixed"}
      [] alert_type = "secret_scanning" -> {"open", "resolved"}

\* the payload of alert number n in state s
StateData(n, s) == AlertData(n, s, "high", Str("A", 9), Raw("isoZ", 0), RawNull)

\* a dependency alert dismissed by a user and then by the remote, one
\* dismissed by the remote at once, and a secret alert that is open or
\* resolved
InitStates ==
    /\ repository = [r \in {1} |-> Repo(<<"test-org", "test-repo">>, TestOrgUrl, 123456, 1)]
    /\ pool = {<<1, "dependabot", StateData("1", s)>> :
                  s \in RemoteStates("dependabot") \ {"open", "fixed"}}
              \cup {<<1, "dependabot", StateData("2", "auto_dismissed")>>}
              \cup {<<1, "secret_scanning", StateData("1", s)>> :
                       s \in RemoteStates("secret_scanning")}
    /\ InitDB
    /\ InitSyncIdle
    /\ InitNoEngine
    /\ InitProjHistory
    /\ InitNoClassifier
    /\ InitNoRace
    /\ InitNoCollector
    /\ InitNoDetector
    /\ InitNoUpdater
    /\ InitNoFindingFacts

SpecStates == InitStates /\ [][NextProj]_vars

\* the alerts that did not change since they were projected
Projected == {a \in alerts : a.id \in fresh /\ a.finding # NoId}

\* C16: every state the transports can store gives the finding one
\* (active, is_mitigated, risk_accepted) tuple, whatever the finding held
\* before: two projected alerts in the same state have findings with the
\* same tuple.
EveryStateAssignsOneTuple ==
    \A a, b \in Projected :
        a.state = b.state => StateTriple(FindingOf(a)) = StateTriple(FindingOf(b))

----------------------------------------------------------------------------
(* Two workers inside create_or_update_finding at the same time *)

\* The triage and score columns of the rows Finding.objects.get loaded: the
\* instance holds every column of the row.
ColumnsRead(existing) ==
    [f \in {x.id : x \in existing} \cap DOMAIN triageFields \cap DOMAIN epssFields |->
        [triage |-> triageFields[f],
         epss_score |-> epssFields[f].epss_score,
         epss_percentile |-> epssFields[f].epss_percentile]]

\* A worker enters create_or_update_finding(alert): its transaction starts
\* and Finding.objects.get reads the findings committed so far.  No row is
\* locked and the lookup key carries no unique constraint.
RaceLookup(w, a) ==
    LET existing == FindingLookup(findings, TestOf(repository[a.repository], a.alert_type),
                                  build_unique_id(a))
    IN  /\ proc[w].pc = "idle"
        /\ a \in alerts
        /\ repository[a.repository].product # NoId
        /\ Cardinality(existing) <= 1
        /\ proc' = [proc EXCEPT ![w] = [pc |-> "looked", alert |-> a, existing |-> existing,
                                        columns |-> ColumnsRead(existing)]]
        /\ UNCHANGED <<now, pool, dbVars, syncVars, projVars, returned, triageVars, tierVars, collectVars, detVars, epssVars, factVars>>

\* whether the finding store rejects a second row with the test and
\* unique_id_from_tool of an existing one: the Finding table carries no
\* such constraint and the persistent stores take no lock
FindingKeyUnique == FALSE

\* The worker saves the finding it found or made, links the alert to it and
\* its transaction commits; a save the store rejects rolls it back.
RaceSave(w) ==
    /\ proc[w].pc = "looked"
    /\ LET a == proc[w].alert
           res == save_finding(ProjDB, a, proc[w].existing)
           taken == FindingLookup(findings, TestOf(repository[a.repository], a.alert_type),
                                  build_unique_id(a))
           cols == proc[w].columns
           saved(f) == CHOOSE x \in res.db.findings : x.id = f
       IN  IF FindingKeyUnique /\ res.created /\ taken # {}
           THEN UNCHANGED <<alerts, findings, nextFindingId, engagements, tests,
                            triageFields, epssFields>>
           ELSE /\ SetProjDB(res.db)
                \* finding.save() has no update_fields: it writes every column
                \* of the instance, those loaded by the lookup included
                /\ triageFields' = [f \in DOMAIN triageFields |->
                                       IF f \in DOMAIN cols THEN cols[f].triage
                                       ELSE triageFields[f]]
                /\ epssFields' = [f \in DOMAIN epssFields |->
                                     IF f \in DOMAIN cols
                                     THEN [epssFields[f] EXCEPT
                                             !.active = saved(f).active,
                                             !.epss_score = cols[f].epss_score,
                                             !.epss_percentile = cols[f].epss_percentile]
                                     ELSE epssFields[f]]
    /\ proc' = [proc EXCEPT ![w] = NoWork]
    /\ UNCHANGED <<now, pool, repository, cursor, nextAlertId, syncVars, projVars,
                   returned, rules, triaged, stats, applied, tierVars, collectVars, detVars,
                   epssRemote, upd, factVars>>

\* one repository and one alert of it that is open or dismissed
InitRace ==
    /\ repository = [r \in {1} |-> Repo(<<"test-org", "test-repo">>, TestOrgUrl, 123456, 1)]
    /\ \E t \in AlertTypes :
          pool = {<<1, t, StateData("1", s)>> : s \in {"open", "dismissed"}}
    /\ InitDB
    /\ InitSyncIdle
    /\ InitNoEngine
    /\ InitProjHistory
    /\ InitNoClassifier
    /\ InitNoRace
    /\ InitNoCollector
    /\ InitNoDetector
    /\ InitNoUpdater
    /\ InitNoFindingFacts

NextRace ==
    \/ \E x \in pool : MirrorUpsert(x[1], x[2], x[3])
    \/ \E w \in Workers, a \in alerts : RaceLookup(w, a)
    \/ \E w \in Workers : RaceSave(w)
    \/ ProjTick

SpecRace == InitRace /\ [][NextRace]_vars

\* C17: whenever no create_or_update_finding call is in progress, at most
\* one finding holds the dedup key of an alert, however the calls of two
\* workers on that alert interleaved.
OneFindingPerAlertAfterRace ==
    (\A w \in Workers : proc[w].pc = "idle") =>
        \A a \in alerts :
            Cardinality({f \in findings : f.unique_id_from_tool = build_unique_id(a)}) <= 1

----------------------------------------------------------------------------
(* Deduplication: alerts that differ only in repository, taxonomy or number *)

OtherOrgUrl == <<"https:", "", "github.com", "test-org", "other-repo">>

\* the payload of alert number n
KeyData(n) == AlertData(n, "open", "high", Str("A", 9), RawNull, RawNull)

\* the second repository shares the product of the first, has its own or has none
InitDedup ==
    /\ \E p \in {1, 2, NoId} :
          repository = [r \in {1, 2} |->
                          IF r = 1
                          THEN Repo(<<"test-org", "test-repo">>, TestOrgUrl, 123456, 1)
                          ELSE Repo(<<"test-org", "other-repo">>, OtherOrgUrl, 789, p)]
    /\ pool = {<<1, "dependabot", KeyData("1")>>, <<1, "dependabot", KeyData("2")>>,
               <<1, "codeql", KeyData("1")>>, <<2, "dependabot", KeyData("1")>>}
    /\ InitDB
    /\ InitSyncIdle
    /\ InitNoEngine
    /\ InitProjHistory
    /\ InitNoClassifier
    /\ InitNoRace
    /\ InitNoCollector
    /\ InitNoDetector
    /\ InitNoUpdater
    /\ InitNoFindingFacts

SpecDedup == InitDedup /\ [][NextProj]_vars

\* C4: there are as many findings as dedup keys projected, two alerts that
\* differ only in their number have different findings, and the finding an
\* alert links to carries that alert's dedup key.
OneFindingPerDedupKey ==
    /\ Cardinality(findings) = Cardinality(projectedKeys)
    /\ \A a \in alerts : a.finding # NoId =>
          \E f \in findings : f.id = a.finding /\ f.unique_id_from_tool = build_unique_id(a)
    /\ \A a, b \in alerts :
          (a.finding # NoId /\ b.finding # NoId /\ a.repository = b.repository
           /\ a.alert_type = b.alert_type /\ a.github_alert_id # b.github_alert_id)
             => a.finding # b.finding

\* two alerts of one repository and taxonomy are projected, one of them again
TwoNumbersProjectedAgain ==
    /\ lastProj.repeat
    /\ \E a, b \in alerts :
          /\ a.repository = b.repository /\ a.alert_type = b.alert_type
          /\ a.github_alert_id # b.github_alert_id
          /\ a.finding # NoId /\ b.finding # NoId

----------------------------------------------------------------------------
(* sync_repository_alerts and sync_organization_alerts as a state machine *)

\* the clock of the sync specifications stops here
MaxSyncTime == 60
\* the largest limit sync_organization_alerts is called with (0: no limit)
MaxLimit == 1
\* a remaining quota below a fifth of QuotaLimit
LowRemaining == 900

TickMinutes == MIN_SYNC_INTERVAL \div 2

\* the eligibility rule as the specification words it: force, or no cursor,
\* or no recorded successful sync, or at least an hour since the last one
EligibleBySpec(r, force) ==
    \/ force
    \/ r \notin DOMAIN cursor
    \/ last_successful_sync(cursor[r]) = NoTime
    \/ now - last_successful_sync(cursor[r]) >= 60

\* the ways of cutting a list into pages
RECURSIVE Splits(_)
Splits(list) ==
    IF list = <<>> THEN {<<>>}
    ELSE UNION {{<<SubSeq(list, 1, k)>> \o rest :
                    rest \in Splits(SubSeq(list, k + 1, Len(list)))} : k \in 1..Len(list)}

\* the answers of the remote to the fetch of taxonomy t of repository r: a
\* list of alerts of the pool with different numbers, in pages, and the
\* request that fails, if any.  The pages of the bulk transport are cut by
\* the remote, those of the per-resource transport by per_page.
Answers(r, t) ==
    LET D == {x[3] : x \in {y \in pool : y[1] = r /\ y[2] = t}}
        lists == UNION {Perms(S) : S \in {T \in SUBSET D :
                    \A d, e \in T : d.github_alert_id = e.github_alert_id => d = e}}
        kinds == IF t = "dependabot" THEN TransientKinds \cup {"graphql_errors"}
                 ELSE TransientKinds \cup {"http404"}
    IN  UNION {
          LET pages == IF t = "dependabot" THEN Splits(list) ELSE {<<list>>}
          IN  {[pages |-> p, failAt |-> 0, kind |-> "none"] : p \in pages}
              \cup UNION {{[pages |-> p, failAt |-> n, kind |-> k] :
                              n \in 1..(IF t = "dependabot" THEN Max(1, Len(p)) ELSE 1),
                              k \in kinds} : p \in pages}
          : list \in lists}

\* results.append(result) for the repositories that were synced only
MutantPushResultOnSuccess(b, r, result) ==
    IF b.active /\ result.success
    THEN [b EXCEPT !.results = Append(@, [repository |-> r, result |-> result])]
    ELSE b

\* results.append(result) of sync_organization_alerts
PushResult(b, r, result) ==
    IF b.active
    THEN [b EXCEPT !.results = Append(@, [repository |-> r, result |-> result])]
    ELSE b

\* sync_repository_alerts(repository, force) up to the try block; b is the
\* state of the calling loop
StartSync(r, force, b) ==
    LET id == parse_repository_identifier(repository[r])
        started == [repository |-> r, force |-> force,
                    eligible |-> EligibleBySpec(r, force), outcome |-> "running",
                    fetched |-> <<>>, lens |-> <<>>, repeat |-> <<>>,
                    notFound |-> <<>>, transient |-> FALSE, advanced |-> FALSE,
                    failedAt |-> NoTime]
        unparsed == [NewResult EXCEPT
                        !.success = FALSE,
                        !.errors = <<Str("Could not parse repository owner/name", 37)>>]
    IN  IF ~force /\ ~should_sync(r)
        THEN /\ pc' = "idle"
             /\ call' = [repository |-> r, force |-> force, result |-> NewResult,
                         error |-> NoError]
             /\ batch' = PushResult(b, r, NewResult)
             /\ trace' = [started EXCEPT !.outcome = "skipped"]
             /\ cursor' = cursor
        ELSE IF id[1] = "" \/ id[2] = ""
        THEN /\ pc' = "idle"
             /\ call' = [repository |-> r, force |-> force, result |-> unparsed,
                         error |-> NoError]
             /\ batch' = PushResult(b, r, unparsed)
             /\ trace' = [started EXCEPT !.outcome = "unparsed"]
             /\ cursor' = cursor
        ELSE /\ pc' = Taxonomies[1]
             /\ call' = [repository |-> r, force |-> force, result |-> NewResult,
                         error |-> NoError]
             /\ batch' = b
             /\ trace' = started
             /\ cursor' = IF r \in DOMAIN cursor THEN cursor ELSE (r :> NewCursor) @@ cursor

\* a caller other than the organization loop calls sync_repository_alerts
SyncRepositoryAlerts(r, force) ==
    /\ pc = "idle"
    /\ ~batch.active
    /\ StartSync(r, force, batch)
    /\ UNCHANGED <<now, pool, repository, alerts, nextAlertId, findings, nextFindingId,
                   engagements, tests, quota, projVars, returned, triageVars, tierVars, proc, collectVars, detVars, epssVars, factVars>>

\* _sync_dependabot_alerts, _sync_codeql_alerts, _sync_secret_scanning_alerts
SyncTaxonomy(t) ==
    /\ pc = t
    /\ \E ans \in Answers(call.repository, t) :
          \E data \in {fetch_alerts(t, ans)} :
          \E res \in {upsert_all(alerts, nextAlertId, call.repository, t, data, 0)} :
          LET r == call.repository
              i == CHOOSE j \in 1..3 : Taxonomies[j] = t
          IN  /\ alerts' = res.rows
              /\ nextAlertId' = res.nextId
              /\ returned' = Returned(returned, r, t, SubSeq(data, 1, res.count))
              /\ fresh' = {a.id : a \in alerts \cap res.rows} \cap fresh
              /\ trace' = [trace EXCEPT !.fetched = Append(@, t),
                                        !.lens = Append(@, Len(data)),
                                        !.repeat = Append(@, Repeats(returned, r, t, data)),
                                        !.notFound = Append(@, ans.kind = "http404"),
                                        !.transient = @ \/ ans.kind \in TransientKinds,
                                        !.failedAt = IF res.error.raised THEN now ELSE @]
              /\ IF res.error.raised
                 THEN /\ pc' = "except"
                      /\ call' = [call EXCEPT !.error = res.error]
                 ELSE /\ pc' = IF i < 3 THEN Taxonomies[i + 1] ELSE "update"
                      /\ call' = [call EXCEPT !.result = set_count(@, t, Len(data))]
    /\ UNCHANGED <<now, pool, repository, cursor, findings, nextFindingId, engagements,
                   tests, batch, quota, lastProj, projectedKeys, triageVars, tierVars, proc, collectVars, detVars, epssVars, factVars>>

\* the rest of the try block: the cursor and the repository are written
FinishSync ==
    /\ pc = "update"
    /\ LET r == call.repository
       IN  /\ cursor' = [cursor EXCEPT ![r] = update_tracker(@, call.result, now)]
           /\ repository' = [repository EXCEPT ![r] = update_repository(@, call.result, now)]
           /\ trace' = [trace EXCEPT !.outcome = "synced",
                                     !.advanced = last_successful_sync(cursor[r]) # now]
           /\ batch' = PushResult(batch, r, call.result)
    /\ pc' = "idle"
    /\ UNCHANGED <<now, pool, alerts, nextAlertId, findings, nextFindingId, engagements,
                   tests, call, quota, projVars, returned, triageVars, tierVars, proc, collectVars, detVars, epssVars, factVars>>

\* the except block
ExceptSync ==
    /\ pc = "except"
    /\ LET r == call.repository
           result == except_result(call.result, call.error)
       IN  /\ call' = [call EXCEPT !.result = result]
           /\ cursor' = [cursor EXCEPT ![r] = except_tracker(@, call.error, now)]
           /\ trace' = [trace EXCEPT !.outcome = "failed"]
           /\ batch' = PushResult(batch, r, result)
    /\ pc' = "idle"
    /\ UNCHANGED <<now, pool, repository, alerts, nextAlertId, findings, nextFindingId,
                   engagements, tests, quota, projVars, returned, triageVars, tierVars, proc, collectVars, detVars, epssVars, factVars>>

\* sync_organization_alerts(organization, limit, force), up to its loop
SyncOrganizationAlerts(force, limit) ==
    /\ pc = "idle"
    /\ ~batch.active
    /\ \E queue \in get_repositories_for_sync(force, limit) :
          batch' = [active |-> TRUE, force |-> force, selected |-> queue,
                    queue |-> queue, results |-> <<>>, log |-> <<>>]
    /\ UNCHANGED <<now, pool, dbVars, pc, call, quota, trace, projVars, returned, triageVars, tierVars, proc, collectVars, detVars, epssVars, factVars>>

\* one iteration of the loop: the rate limit check, then the repository
OrgIterate ==
    /\ pc = "idle"
    /\ batch.active
    /\ batch.queue # <<>>
    /\ IF should_pause_for_rate_limits
       THEN /\ batch' = [batch EXCEPT !.active = FALSE]
            /\ UNCHANGED <<pc, call, trace, cursor>>
       ELSE StartSync(Head(batch.queue), batch.force,
                      [batch EXCEPT !.queue = Tail(@),
                                    !.log = Append(@, [repository |-> Head(batch.queue),
                                                       quota |-> quota])])
    /\ UNCHANGED <<now, pool, repository, alerts, nextAlertId, findings, nextFindingId,
                   engagements, tests, quota, projVars, returned, triageVars, tierVars, proc, collectVars, detVars, epssVars, factVars>>

\* the loop is through: sync_organization_alerts returns results
OrgReturn ==
    /\ pc = "idle"
    /\ batch.active
    /\ batch.queue = <<>>
    /\ batch' = [batch EXCEPT !.active = FALSE]
    /\ UNCHANGED <<now, pool, dbVars, pc, call, quota, trace, projVars, returned, triageVars, tierVars, proc, collectVars, detVars, epssVars, factVars>>

\* the remote's quota is used up or refilled while a batch runs
QuotaChange(q) ==
    /\ pc = "idle"
    /\ batch.active
    /\ q # quota
    /\ quota' = q
    /\ UNCHANGED <<now, pool, dbVars, pc, call, batch, trace, projVars, returned, triageVars, tierVars, proc, collectVars, detVars, epssVars, factVars>>

\* half an hour passes
SyncTick ==
    /\ pc = "idle"
    /\ now + TickMinutes <= MaxSyncTime
    /\ now' = now + TickMinutes
    /\ UNCHANGED <<pool, dbVars, syncVars, projVars, returned, triageVars, tierVars, proc, collectVars, detVars, epssVars, factVars>>

----------------------------------------------------------------------------
(* One repository synced again and again *)

\* an alert whose title the remote sent as null: _build_alert_fields raises
NullTitle(number) == AlertData(number, "open", "high", NoneStr, RawNull, RawNull)

\* an alert the database refuses to store, with a long message
Rejected(number) ==
    [AlertData(number, "open", "high", Str("S", 9), RawNull, RawNull)
        EXCEPT !.error = Raise(Str("DatabaseError", ErrorMax + 1))]

\* Dependabot alert 1 open, and fixed with a title of 501 characters and a
\* creation time that is no ISO 8601 string; CodeQL alert 1; for each
\* taxonomy an alert whose upsert raises.
SyncPool ==
    {<<1, "dependabot", AlertData("1", "open", "high", Str("A", 9), Raw("isoZ", 0), RawNull)>>,
     <<1, "dependabot", AlertData("1", "fixed", "high", Str("A", TitleMax + 1),
                                  Raw("text", 0), Raw("iso", 30))>>,
     <<1, "dependabot", NullTitle("2")>>,
     <<1, "codeql", AlertData("1", "open", "medium", Str("C", 9), Raw("isoZ", 0), RawNull)>>,
     <<1, "codeql", NullTitle("2")>>,
     <<1, "secret_scanning", Rejected("2")>>}

\* the repository has a GitHub URL, or neither a URL nor an owner in its name
InitSync ==
    /\ \E id \in {<<TestOrgUrl, <<"test-org", "test-repo">>>>, <<<<>>, <<"test-repo">>>>} :
          repository = [r \in {1} |-> Repo(id[2], id[1], 123456, 1)]
    /\ pool = SyncPool
    /\ InitDB
    /\ InitSyncIdle
    /\ InitNoEngine
    /\ InitProjHistory
    /\ InitNoClassifier
    /\ InitNoRace
    /\ InitNoCollector
    /\ InitNoDetector
    /\ InitNoUpdater
    /\ InitNoFindingFacts

NextSync ==
    \/ \E r \in DOMAIN repository, force \in BOOLEAN : SyncRepositoryAlerts(r, force)
    \/ \E t \in AlertTypes : SyncTaxonomy(t)
    \/ FinishSync
    \/ ExceptSync
    \/ SyncTick

SpecSync == InitSync /\ [][NextSync]_vars

----------------------------------------------------------------------------
(* Claims about sync_repository_alerts *)

CursorProgress(c) ==
    <<c.dependabot_last_sync, c.codeql_last_sync, c.secret_scanning_last_sync,
      c.dependabot_alerts_fetched, c.codeql_alerts_fetched,
      c.secret_scanning_alerts_fetched, c.full_sync_completed>>

RepoCounters(repo) ==
    <<repo.dependabot_alert_count, repo.codeql_alert_count,
      repo.secret_scanning_alert_count, repo.last_alert_sync>>

\* the values of repository r that a completed sync reports; a cursor that
\* does not exist yet counts with the values it is created with
SyncProgress(r) ==
    <<CursorProgress(IF r \in DOMAIN cursor THEN cursor[r] ELSE NewCursor),
      RepoCounters(repository[r])>>

\* C1: the cursor's last-sync timestamps, fetched counts and
\* full_sync_completed and the repository's cached counters and
\* last_alert_sync change only in the step that follows the return of all
\* three taxonomy syncs without an exception; in every other step, those of
\* a failing sync included, each keeps its value.
ProgressWrittenAfterAllThreeSyncs ==
    [][\A r \in DOMAIN repository :
          SyncProgress(r)' # SyncProgress(r)
             => /\ pc = "update"
                /\ call.repository = r
                /\ trace.fetched = Taxonomies
                /\ ~call.error.raised]_vars

\* a sync whose third taxonomy raised, after an earlier sync had succeeded
ThirdSyncRaisedAfterSuccess ==
    /\ pc = "idle"
    /\ trace.outcome = "failed"
    /\ trace.fetched = Taxonomies
    /\ cursor[trace.repository].dependabot_last_sync # NoTime
    /\ cursor[trace.repository].dependabot_last_sync < now

\* C18: after a sync of a repository in which all three taxonomy syncs
\* returned, the cursor's three last-sync timestamps are one and the same
\* time, its fetched counts are the numbers of alerts the three fetches
\* returned, full_sync_completed is set, last_sync_error is empty, and the
\* repository's three cached counters equal the cursor's fetched counts.
CursorAndCountersAfterSuccess ==
    trace.outcome = "synced" =>
        LET c == cursor[trace.repository]
            repo == repository[trace.repository]
        IN  /\ c.dependabot_last_sync # NoTime
            /\ c.codeql_last_sync = c.dependabot_last_sync
            /\ c.secret_scanning_last_sync = c.dependabot_last_sync
            /\ trace.fetched = Taxonomies
            /\ c.dependabot_alerts_fetched = trace.lens[1]
            /\ c.codeql_alerts_fetched = trace.lens[2]
            /\ c.secret_scanning_alerts_fetched = trace.lens[3]
            /\ c.full_sync_completed
            /\ c.last_sync_error = EmptyStr
            /\ repo.dependabot_alert_count = c.dependabot_alerts_fetched
            /\ repo.codeql_alert_count = c.codeql_alerts_fetched
            /\ repo.secret_scanning_alert_count = c.secret_scanning_alerts_fetched

\* a sync succeeded after an earlier one had failed, with alerts returned
SyncedAfterFailure ==
    /\ trace.outcome = "synced"
    /\ cursor[trace.repository].last_sync_error_at # NoTime
    /\ \E i \in 1..3 : trace.lens[i] > 0

NotFoundIsEmptyResult ==
    \A i \in 1..Len(trace.notFound) :
        trace.notFound[i] =>
            /\ Taxonomies[i] \in {"codeql", "secret_scanning"}
            /\ trace.lens[i] = 0
            /\ (trace.outcome = "running" /\ i = Len(trace.fetched))
                  => pc = (IF i < 3 THEN Taxonomies[i + 1] ELSE "update")
            /\ trace.outcome = "failed" => (call.error.raised /\ Len(trace.fetched) # i)
            /\ trace.outcome = "synced"
                  => /\ call.result.success
                     /\ call.result.errors = <<>>
                     /\ trace.fetched = Taxonomies
                     /\ cursor[trace.repository].last_sync_error = EmptyStr
                     /\ cursor[trace.repository].full_sync_completed
                     /\ cursor[trace.repository].dependabot_last_sync # NoTime
                     /\ cursor[trace.repository].dependabot_alerts_fetched = trace.lens[1]

\* a sync ended successful in which both feeds of the per-resource transport
\* answered not-found and the bulk transport returned an alert
SyncedWithFeedsNotFound ==
    /\ trace.outcome = "synced"
    /\ trace.notFound[2] /\ trace.notFound[3]
    /\ trace.lens[1] > 0
    /\ cursor[trace.repository].dependabot_alerts_fetched > 0

\* the mirror key of an alert row
MirrorKey(a) == <<a.repository, a.alert_type, a.github_alert_id>>

\* the time a timestamp of the remote denotes
TimeOf(raw) == raw.t

\* the time an ISO 8601 timestamp of the remote denotes, none for any other
IsoTimeOf(raw) == IF raw.kind \in {"iso", "isoZ"} THEN raw.t ELSE NoTime

\* the mirror has one row per key returned and no other row
OneRowPerMirrorKey ==
    /\ \A a, b \in alerts : MirrorKey(a) = MirrorKey(b) => a = b
    /\ {MirrorKey(a) : a \in alerts} = DOMAIN returned

\* C5 as stated: one row per (repository, taxonomy, number), created when the
\* key is absent and updated in place otherwise, whose state, severity, title
\* and timestamps equal the values the remote returned last.
MirrorRowEqualsReturned ==
    /\ OneRowPerMirrorKey
    /\ \A a \in alerts :
          LET d == returned[MirrorKey(a)].data
          IN  /\ a.state = d.state
              /\ a.severity = d.severity
              /\ a.title = d.title
              /\ a.created_at = TimeOf(d.created_at)
              /\ a.updated_at = TimeOf(d.updated_at)
              /\ a.dismissed_at = TimeOf(d.dismissed_at)
              /\ a.fixed_at = TimeOf(d.fixed_at)

\* C5, amended: one row per (repository, taxonomy, number), created when the
\* key is absent and updated in place otherwise; its state and severity
\* equal the values returned last, its title is the first 500 characters of
\* the title returned, and each timestamp is the time returned when that is
\* an ISO 8601 string and null otherwise.
MirrorRowIsReturnedCutAndParsed ==
    /\ OneRowPerMirrorKey
    /\ \A a \in alerts :
          LET d == returned[MirrorKey(a)].data
          IN  /\ a.state = d.state
              /\ a.severity = d.severity
              /\ a.title.text = d.title.text
              /\ a.title.len = IF d.title.len <= 500 THEN d.title.len ELSE 500
              /\ a.created_at = IsoTimeOf(d.created_at)
              /\ a.updated_at = IsoTimeOf(d.updated_at)
              /\ a.dismissed_at = IsoTimeOf(d.dismissed_at)
              /\ a.fixed_at = IsoTimeOf(d.fixed_at)

\* a row updated in place by an alert with a title of more than 500
\* characters, next to a row of another taxonomy with the same number
RowUpdatedInPlaceWithLongTitle ==
    \E a, b \in alerts :
        /\ returned[MirrorKey(a)].changed
        /\ returned[MirrorKey(a)].data.title.len > 500
        /\ b.alert_type # a.alert_type
        /\ b.github_alert_id = a.github_alert_id

\* owner and name can be read from the repository
Parseable(r) ==
    LET id == parse_repository_identifier(repository[r])
    IN  id[1] # "" /\ id[2] # ""

\* the last call went past its checks and into the taxonomy syncs
SyncPerformed == trace.outcome \in {"running", "synced", "failed"}

\* a call that performs no sync fetches nothing and changes no alert row, no
\* cursor and no repository
NoSyncChangesNothing ==
    [][(trace'.outcome \in {"skipped", "unparsed"} /\ now' = now)
          => /\ trace'.fetched = <<>>
             /\ pc' = "idle"
             /\ alerts' = alerts
             /\ cursor' = cursor
             /\ repository' = repository]_vars

\* C6 as stated: a sync is performed if and only if force is set, or there
\* is no cursor or no recorded successful sync, or at least an hour has
\* passed since the last successful sync; otherwise nothing is fetched and
\* nothing changes.
SyncIffEligible ==
    /\ [](trace.outcome # "none" => (SyncPerformed <=> trace.eligible))
    /\ NoSyncChangesNothing

\* C6, amended: a sync is performed if and only if owner and name can be
\* parsed from the repository's github_url or name and force is set, or
\* there is no cursor or no recorded successful sync, or at least an hour
\* has passed since the last successful sync; otherwise nothing is fetched
\* and nothing changes.
SyncIffEligibleAndParseable ==
    /\ [](trace.outcome # "none"
            => (SyncPerformed <=> (trace.eligible /\ Parseable(trace.repository))))
    /\ NoSyncChangesNothing

\* a call without force half an hour after a successful sync was skipped
SkippedHalfAnHourAfterSync ==
    /\ trace.outcome = "skipped"
    /\ ~trace.force
    /\ cursor[trace.repository].full_sync_completed
    /\ now - last_successful_sync(cursor[trace.repository]) = 30

\* C7: when a taxonomy sync raised, the result returned has success=False
\* and holds the exception message, the cursor's last_sync_error is the
\* first 1000 characters of the message and last_sync_error_at the time of
\* the failure, each taxonomy was fetched at most once, and nothing is
\* fetched after the exception.
FailureRecordedWithoutRetry ==
    /\ []((pc = "idle" /\ trace.outcome = "failed")
            => /\ ~call.result.success
               /\ \E i \in DOMAIN call.result.errors : call.result.errors[i] = call.error.msg
               /\ cursor[trace.repository].last_sync_error.text = call.error.msg.text
               /\ cursor[trace.repository].last_sync_error.len =
                    (IF call.error.msg.len <= 1000 THEN call.error.msg.len ELSE 1000)
               /\ cursor[trace.repository].last_sync_error_at = trace.failedAt
               /\ \E n \in 1..3 : trace.fetched = SubSeq(Taxonomies, 1, n))
    /\ [][pc = "except" => trace'.fetched = trace.fetched]_vars

\* a sync failed with a message of more than 1000 characters
FailedWithLongMessage ==
    /\ pc = "idle"
    /\ trace.outcome = "failed"
    /\ call.error.msg.len > 1000

\* C8: when a fetch failed with a transient transport error, the call
\* returns success=False, the cursor holds a last_sync_error, its last-sync
\* timestamps did not advance and the repository is still eligible.
TransientFailureRecorded ==
    (pc = "idle" /\ trace.transient /\ trace.outcome \in {"synced", "failed"})
        => /\ ~call.result.success
           /\ cursor[trace.repository].last_sync_error # EmptyStr
           /\ ~trace.advanced
           /\ should_sync(trace.repository)

----------------------------------------------------------------------------
(* An organization of three repositories synced in batches *)

\* the remote's quota: each transport has all of it or less than a fifth left
QuotaLevels ==
    {[graphql_remaining |-> g, graphql_limit |-> QuotaLimit,
      rest_remaining |-> s, rest_limit |-> QuotaLimit] :
        g \in {QuotaLimit, LowRemaining}, s \in {QuotaLimit, LowRemaining}}

\* a repository with a GitHub URL, one with the owner in its name and one
\* without a remote id; the first has an alert, the second an alert whose
\* upsert raises
InitOrg ==
    /\ repository = [r \in {1, 2, 3} |->
                        CASE r = 1 -> Repo(<<"test-org", "test-repo">>, TestOrgUrl, 123456, 1)
                          [] r = 2 -> Repo(<<"test-org", "other-repo">>, <<>>, 789, 1)
                          [] r = 3 -> Repo(<<"test-org", "no-id">>, <<>>, NoId, 1)]
    /\ pool = {<<1, "dependabot",
                 AlertData("1", "open", "high", Str("A", 9), Raw("isoZ", 0), RawNull)>>,
               <<2, "codeql", NullTitle("2")>>}
    /\ InitDB
    /\ InitSyncIdle
    /\ InitNoEngine
    /\ InitProjHistory
    /\ InitNoClassifier
    /\ InitNoRace
    /\ InitNoCollector
    /\ InitNoDetector
    /\ InitNoUpdater
    /\ InitNoFindingFacts

NextOrg ==
    \/ \E force \in BOOLEAN, limit \in 0..MaxLimit : SyncOrganizationAlerts(force, limit)
    \/ OrgIterate
    \/ OrgReturn
    \/ \E t \in AlertTypes : SyncTaxonomy(t)
    \/ FinishSync
    \/ ExceptSync
    \/ \E q \in QuotaLevels : QuotaChange(q)
    \/ SyncTick

SpecOrg == InitOrg /\ [][NextOrg]_vars

\* less than 20% of the quota of either transport is left
BelowFifth(q) ==
    \/ 100 * q.graphql_remaining < 20 * q.graphql_limit
    \/ 100 * q.rest_remaining < 20 * q.rest_limit

\* C9: sync_organization_alerts starts the sync of a repository only while
\* at least 20% of the quota of both transports is left.
NoSyncBelowFifthOfQuota ==
    \A i \in DOMAIN batch.log : ~BelowFifth(batch.log[i].quota)

\* the repositories sync_repository_alerts was called with, in call order
Attempted == [i \in 1..Len(batch.log) |-> batch.log[i].repository]

\* the repositories of the results list, in list order
ResultRepositories == [i \in 1..Len(batch.results) |-> batch.results[i].repository]

\* the cursor of repository r, if it has one, and its mirror rows
CursorAndAlerts(r) ==
    <<IF r \in DOMAIN cursor THEN <<cursor[r]>> ELSE <<>>,
      {a \in alerts : a.repository = r}>>

\* every repository of the selection is attempted once and in the order of
\* the selection, and each attempt that returned has its result in the list
AttemptedOnceInOrder ==
    /\ Attempted \o batch.queue = batch.selected
    /\ \A i, j \in 1..Len(batch.selected) :
          i # j => batch.selected[i] # batch.selected[j]
    /\ pc = "idle" => ResultRepositories = Attempted
    /\ (~batch.active /\ ~should_pause_for_rate_limits)
          => ResultRepositories = batch.selected

\* C20: sync_organization_alerts, its rate-limit guard not firing, calls
\* sync_repository_alerts once for every selected repository, in the order
\* of the selection and whether or not an earlier repository failed, and
\* returns one result per selected repository in that order; no step of the
\* sync of a repository, failing or not, changes the cursor or the alerts
\* of another repository.
BatchAttemptsEveryRepositoryOnce ==
    /\ []AttemptedOnceInOrder
    /\ [][\A r \in DOMAIN repository :
              CursorAndAlerts(r)' # CursorAndAlerts(r) => r = call'.repository]_vars

\* a batch of two repositories returned: the sync of the first failed, the
\* second was synced and has an alert and a cursor without an error
BatchContinuedAfterFailure ==
    /\ ~batch.active
    /\ Len(batch.results) = 2
    /\ ~batch.results[1].result.success
    /\ batch.results[2].result.success
    /\ batch.results[2].result.dependabot_count > 0
    /\ cursor[batch.results[1].repository].last_sync_error # EmptyStr
    /\ cursor[batch.results[2].repository].last_sync_error = EmptyStr

----------------------------------------------------------------------------
(* auto_triage/engine.py: rule evaluation *)

\* the findings the engine is called with
TriageFindings == {1, 2}

\* what calling a rule's condition on a finding does: it returns a true
\* value, returns a false value or raises
Outcomes == {"true", "false", "raise"}

\* confidence the engine reports for a rule without a 'confidence' key
DefaultConfidence == 80

\* A rule holds the keys validate_all_rules requires (name, condition,
\* decision, reason) and may hold 'confidence'.  condition[f] is what the
\* rule's condition does on finding f.
Rule(name, decision, keys, confidence, condition) ==
    [name |-> name, decision |-> decision, reason |-> <<"reason of", name>>,
     keys |-> keys, confidence |-> confidence, condition |-> condition]

\* three rules under every behaviour of their condition: the second has no
\* 'confidence' key
TriageRuleSet ==
    {Rule("escalate_a", "ESCALATE", {"confidence"}, 95, c) : c \in [TriageFindings -> Outcomes]}
    \cup {Rule("dismiss_b", "DISMISS", {}, 0, c) : c \in [TriageFindings -> Outcomes]}
    \cup {Rule("pending_c", "PENDING", {"confidence"}, 50, c) : c \in [TriageFindings -> Outcomes]}

\* the dictionary triage_single_finding builds from a matching rule
RuleResult(rule) ==
    [decision |-> rule.decision, reason |-> rule.reason, rule_name |-> rule.name,
     confidence |-> IF "confidence" \in rule.keys THEN rule.confidence
                    ELSE DefaultConfidence]

\* triage_single_finding: the loop over self.rules from rule number i on.
\* A condition that returns a false value or raises leads to the next rule.
RECURSIVE MutantTriageLastMatch(_, _, _)
MutantTriageLastMatch(rs, f, i) ==
    IF i > Len(rs) THEN DefaultResult
    ELSE LET later == MutantTriageLastMatch(rs, f, i + 1)
         IN  IF later.rule_name # "default" THEN later
             ELSE IF rs[i].condition[f] = "true" THEN RuleResult(rs[i])
             ELSE later

RECURSIVE MutantTriageRaiseAborts(_, _, _)
MutantTriageRaiseAborts(rs, f, i) ==
    IF i > Len(rs) THEN DefaultResult
    ELSE IF rs[i].condition[f] = "true" THEN RuleResult(rs[i])
    ELSE IF rs[i].condition[f] = "raise"
         THEN [DefaultResult EXCEPT !.decision = "exception", !.rule_name = rs[i].name]
    ELSE MutantTriageRaiseAborts(rs, f, i + 1)

RECURSIVE triage_single_finding(_, _, _)
triage_single_finding(rs, f, i) ==
    IF i > Len(rs) THEN DefaultResult
    ELSE IF rs[i].condition[f] = "true" THEN RuleResult(rs[i])
    ELSE triage_single_finding(rs, f, i + 1)

\* the longest rule list an engine is constructed with
MaxRules == 2

\* AutoTriageEngine(rules) with a list of rules of different names.  An
\* empty list makes the constructor take TRIAGE_RULES, so self.rules is
\* never empty.
InitTriage ==
    /\ \E n \in 1..MaxRules :
          rules \in {rs \in [1..n -> TriageRuleSet] :
                        \A i, j \in 1..n : rs[i].name = rs[j].name => i = j}
    /\ triaged = NoTriage
    /\ triageFields = <<>>
    /\ InitNoApply
    /\ repository = <<>>
    /\ pool = {}
    /\ InitDB
    /\ InitSyncIdle
    /\ InitProjHistory
    /\ InitNoClassifier
    /\ InitNoRace
    /\ InitNoCollector
    /\ InitNoDetector
    /\ InitNoUpdater
    /\ InitNoFindingFacts

\* engine.triage_single_finding(finding)
TriageSingleFinding(f) ==
    /\ rules # <<>>
    /\ triaged' = [finding |-> f, result |-> triage_single_finding(rules, f, 1)]
    /\ UNCHANGED <<now, pool, dbVars, syncVars, projVars, returned, rules,
                   triageFields, stats, applied, tierVars, proc, collectVars, detVars, epssVars, factVars>>

NextTriage == \E f \in TriageFindings : TriageSingleFinding(f)

SpecTriage == InitTriage /\ [][NextTriage]_vars

\* the numbers of the rules whose condition returns true on finding f
Matching(f) == {i \in DOMAIN rules : rules[i].condition[f] = "true"}

\* C10: triage_single_finding returns the decision, reason, name and
\* confidence (80 for a rule that gives none) of the first rule of the list
\* whose condition returns true, and the built-in result (PENDING, 'default',
\* confidence 0) exactly when no rule's condition returns true.
FirstMatchingRuleDecides ==
    triaged.finding # NoId =>
        LET f == triaged.finding
            res == triaged.result
        IN  /\ Matching(f) # {} =>
                  LET i == CHOOSE j \in Matching(f) : \A k \in Matching(f) : j <= k
                  IN  /\ res.decision = rules[i].decision
                      /\ res.reason = rules[i].reason
                      /\ res.rule_name = rules[i].name
                      /\ res.confidence = IF "confidence" \in rules[i].keys
                                          THEN rules[i].confidence ELSE 80
            /\ (Matching(f) = {}) <=>
                  (res.decision = "PENDING" /\ res.rule_name = "default"
                   /\ res.confidence = 0)

\* two rules of the list match the finding triaged
TwoRulesMatchTriaged ==
    /\ triaged.finding # NoId
    /\ Cardinality(Matching(triaged.finding)) >= 2
    /\ triaged.result.rule_name # "default"

\* TriageDecision
Decisions == {"DISMISS", "ESCALATE", "ACCEPT_RISK", "PENDING"}

\* the rules of the list before rule number i whose condition returns true
\* on finding f
MatchingBefore(f, i) == {k \in Matching(f) : k < i}

\* the rules of the list after rule number i whose condition returns true
MatchingAfter(f, i) == {k \in Matching(f) : k > i}

\* C12: a rule whose condition raises counts as not matching and the rules
\* after it are still evaluated: when no rule before the raising one
\* matched, the first matching rule after it decides, and the built-in
\* result is returned when there is none.  The call always returns a
\* decision; no exception leaves triage_single_finding.
RaisingRuleSkipped ==
    triaged.finding # NoId =>
        LET f == triaged.finding
            res == triaged.result
        IN  /\ res.decision \in Decisions
            /\ \A i \in DOMAIN rules :
                  (rules[i].condition[f] = "raise" /\ MatchingBefore(f, i) = {}) =>
                      IF MatchingAfter(f, i) = {} THEN res = DefaultResult
                      ELSE LET j == CHOOSE k \in MatchingAfter(f, i) :
                                        \A l \in MatchingAfter(f, i) : k <= l
                           IN  res = RuleResult(rules[j])

\* the first rule of the list raised on the finding triaged and a later
\* rule decided
RaisedThenLaterRuleDecided ==
    /\ triaged.finding # NoId
    /\ rules[1].condition[triaged.finding] = "raise"
    /\ MatchingAfter(triaged.finding, 1) # {}
    /\ triaged.result.rule_name # "default"

----------------------------------------------------------------------------
(* auto_triage/engine.py: decisions applied to the finding store *)

\* auto_triage_reason: the f-string of _apply_triage_to_finding as the
\* record of its pieces
FormatReason(data) ==
    [reason |-> data.reason, rule_name |-> data.rule_name, confidence |-> data.confidence]

\* auto_triage_reason = ''
EmptyReason == [reason |-> <<>>, rule_name |-> "", confidence |-> -(1)]

\* the triage fields reset_triage_decisions writes
ResetFields ==
    [auto_triage_decision |-> "PENDING", auto_triage_reason |-> EmptyReason,
     auto_triaged_at |-> NoTime]

\* _apply_triage_to_finding: the triage fields of the finding after the
\* call, from its fields before, the decision computed and the time
MutantApplyAlwaysWrites(fields, data, t) ==
    [auto_triage_decision |-> data.decision,
     auto_triage_reason |-> FormatReason(data),
     auto_triaged_at |-> t]

apply_triage_to_finding(fields, data, t) ==
    IF fields.auto_triage_decision = data.decision THEN fields
    ELSE [auto_triage_decision |-> data.decision,
          auto_triage_reason |-> FormatReason(data),
          auto_triaged_at |-> t]

\* the counter of self.stats a written decision adds to
stats_key(decision) ==
    CASE decision = "DISMISS" -> "dismissed"
      [] decision = "ESCALATE" -> "escalated"
      [] decision = "ACCEPT_RISK" -> "accepted_risk"
      [] OTHER -> "pending"

\* the findings counted by self.stats
Counted(st) == st.dismissed + st.escalated + st.accepted_risk + st.pending + st.errors

\* the findings one engine is given, and the clock of the triage runs
MaxApply == 2
MaxTriageTime == 1

\* the passes of the engine after one more, in which the except branch ran
\* (raised) or not and the stored decision of the finding went from before
\* to after
RunAfter(run, raised, before, after) ==
    [passes |-> run.passes + 1,
     raised |-> IF raised THEN run.raised + 1 ELSE run.raised,
     written |-> IF before # after THEN [run.written EXCEPT ![after] = @ + 1]
                 ELSE run.written]

\* the loop pass that counts every finding it did not fail on under its
\* decision, changed or not
MutantApplyCountsByDecision(f, fails) ==
    LET data == triage_single_finding(rules, f, 1)
        same == triageFields[f].auto_triage_decision = data.decision
        outcome == IF same THEN "unchanged" ELSE IF fails THEN "error" ELSE "written"
        key == CASE outcome = "error" -> "errors"
                 [] OTHER -> stats_key(data.decision)
    IN  /\ rules # <<>>
        /\ f \in DOMAIN triageFields
        /\ Counted(stats) < MaxApply
        /\ triageFields' =
              IF outcome = "error" THEN triageFields
              ELSE [triageFields EXCEPT ![f] = apply_triage_to_finding(@, data, now)]
        /\ stats' = [stats EXCEPT ![key] = @ + 1]
        /\ applied' = [finding |-> f, data |-> data, outcome |-> outcome,
                       settled |-> IF outcome = "error" THEN applied.settled \ {f}
                                   ELSE applied.settled \cup {f},
                       run |-> RunAfter(applied.run, outcome = "error",
                                        triageFields[f].auto_triage_decision,
                                        triageFields'[f].auto_triage_decision)]
        /\ UNCHANGED <<now, pool, dbVars, syncVars, projVars, returned, rules, triaged, tierVars, proc, collectVars, detVars, epssVars, factVars>>

\* One pass of the loop of _triage_findings_queryset over finding f:
\* _apply_triage_to_finding(f), and the except branch when finding.save
\* raises (fails).
ApplyTriageToFinding(f, fails) ==
    LET data == triage_single_finding(rules, f, 1)
        same == triageFields[f].auto_triage_decision = data.decision
        outcome == IF same THEN "unchanged" ELSE IF fails THEN "error" ELSE "written"
        key == CASE outcome = "unchanged" -> "pending"
                 [] outcome = "error" -> "errors"
                 [] OTHER -> stats_key(data.decision)
    IN  /\ rules # <<>>
        /\ f \in DOMAIN triageFields
        /\ Counted(stats) < MaxApply
        /\ triageFields' =
              IF outcome = "error" THEN triageFields
              ELSE [triageFields EXCEPT ![f] = apply_triage_to_finding(@, data, now)]
        /\ stats' = [stats EXCEPT ![key] = @ + 1]
        /\ applied' = [finding |-> f, data |-> data, outcome |-> outcome,
                       settled |-> IF outcome = "error" THEN applied.settled \ {f}
                                   ELSE applied.settled \cup {f},
                       run |-> RunAfter(applied.run, outcome = "error",
                                        triageFields[f].auto_triage_decision,
                                        triageFields'[f].auto_triage_decision)]
        /\ UNCHANGED <<now, pool, dbVars, syncVars, projVars, returned, rules, triaged, tierVars, proc, collectVars, detVars, epssVars, factVars>>

\* reset_triage_decisions(finding_ids): given is FALSE for a call without
\* a list
ResetTriageDecisions(given, ids) ==
    LET queryset == IF given /\ ids # {} THEN DOMAIN triageFields \cap ids
                    ELSE DOMAIN triageFields
    IN  /\ rules # <<>>
        /\ \E f \in queryset : triageFields[f] # ResetFields
        /\ triageFields' = [f \in DOMAIN triageFields |->
                               IF f \in queryset THEN ResetFields ELSE triageFields[f]]
        /\ applied' = [applied EXCEPT !.settled = @ \ queryset]
        /\ UNCHANGED <<now, pool, dbVars, syncVars, projVars, returned, rules, triaged, stats, tierVars, proc, collectVars, detVars, epssVars, factVars>>

\* a signal of finding f changes (its exploit score is refreshed, its
\* product is reclassified): rule number i now does o on it
SignalChange(i, f, o) ==
    /\ i \in DOMAIN rules
    /\ rules[i].condition[f] # o
    /\ rules' = [rules EXCEPT ![i].condition[f] = o]
    /\ applied' = [applied EXCEPT !.settled = @ \ {f}]
    /\ UNCHANGED <<now, pool, dbVars, syncVars, projVars, returned, triaged, triageFields, stats, tierVars, proc, collectVars, detVars, epssVars, factVars>>

\* AutoTriageEngine(): the next run constructs a new engine
NewEngine ==
    /\ rules # <<>>
    /\ stats # NewStats
    /\ stats' = NewStats
    /\ applied' = [applied EXCEPT !.run = NoRun]
    /\ UNCHANGED <<now, pool, dbVars, syncVars, projVars, returned, rules, triaged,
                   triageFields, tierVars, proc, collectVars, detVars, epssVars, factVars>>

\* timezone.now() moves on
TriageTick ==
    /\ now < MaxTriageTime
    /\ now' = now + 1
    /\ UNCHANGED <<pool, dbVars, syncVars, projVars, returned, triageVars, tierVars, proc, collectVars, detVars, epssVars, factVars>>

\* what a condition that does not raise returns
Returns == {"true", "false"}

\* two rules of the same decision, under every value their conditions
\* return
RetriageRules ==
    {<<Rule("escalate_a", "ESCALATE", {"confidence"}, 95, c),
       Rule("escalate_d", "ESCALATE", {}, 0, d)>> :
        c \in [TriageFindings -> Returns], d \in [TriageFindings -> Returns]}

\* an engine over findings whose triage fields were reset
InitRetriage ==
    /\ rules \in RetriageRules
    /\ triaged = NoTriage
    /\ triageFields = [f \in TriageFindings |-> ResetFields]
    /\ InitNoApply
    /\ repository = <<>>
    /\ pool = {}
    /\ InitDB
    /\ InitSyncIdle
    /\ InitProjHistory
    /\ InitNoClassifier
    /\ InitNoRace
    /\ InitNoCollector
    /\ InitNoDetector
    /\ InitNoUpdater
    /\ InitNoFindingFacts

NextRetriage ==
    \/ \E f \in TriageFindings, fails \in BOOLEAN : ApplyTriageToFinding(f, fails)
    \/ \E given \in BOOLEAN, ids \in SUBSET TriageFindings : ResetTriageDecisions(given, ids)
    \/ \E i \in 1..2, f \in TriageFindings, o \in Returns : SignalChange(i, f, o)
    \/ NewEngine
    \/ TriageTick

SpecRetriage == InitRetriage /\ [][NextRetriage]_vars

\* the step is one pass of the loop of _triage_findings_queryset
ApplyStep == Counted(stats') = Counted(stats) + 1

\* C11: when the decision computed for a finding equals its stored
\* auto_triage_decision, the call writes nothing: decision, reason and
\* timestamp keep their stored values, whichever rule produced the decision.
\* A finding triaged again with no signal change in between is therefore
\* not written.
RetriageSameDecisionNotWritten ==
    [][ApplyStep =>
          LET f == applied'.finding
              data == triage_single_finding(rules, f, 1)
          IN  (data.decision = triageFields[f].auto_triage_decision
               \/ f \in applied.settled) =>
                  /\ triageFields' = triageFields
                  /\ applied'.outcome = "unchanged"]_vars

\* a finding escalated by one rule was triaged again later, when the other
\* rule produced the same decision, and kept its fields
SameDecisionByOtherRuleKept ==
    /\ applied.outcome = "unchanged"
    /\ applied.finding # NoId
    /\ LET fields == triageFields[applied.finding]
       IN  /\ fields.auto_triage_decision = "ESCALATE"
           /\ fields.auto_triage_reason.rule_name # applied.data.rule_name
           /\ fields.auto_triaged_at # NoTime
           /\ fields.auto_triaged_at < now

----------------------------------------------------------------------------
(* tier_classifier.py: the tier of a repository from its binary signals *)

\* A signals dictionary is the set of the signal names whose value is true:
\* signals.get(name, False)
Get(signals, name) == name \in signals

\* TIER_MAPPING
TIER_MAPPING(tier) ==
    CASE tier = 1 -> "very high"
      [] tier = 2 -> "high"
      [] tier = 3 -> "medium"
      [] tier = 4 -> "low"
      [] tier = ArchivedTier -> "none"

\* a line of the reasons list; days is the number an f-string put into it
Reason(text) == [text |-> text, days |-> NoDays]

\* _is_tier_1: whether the signals meet tier 1, and the reason it appends
is_tier_1(signals) ==
    LET has_containers == Get(signals, "has_dockerfile") \/ Get(signals, "has_kubernetes_config")
        has_environments == Get(signals, "has_environments")
        has_monitoring == Get(signals, "has_monitoring_config")
        is_active == Get(signals, "recent_commits_30d")
        has_k8s == Get(signals, "has_kubernetes_config")
        has_releases == Get(signals, "has_releases")
        has_protection == Get(signals, "has_branch_protection")
    IN  IF has_containers /\ has_environments /\ has_monitoring /\ is_active
        THEN [ok |-> TRUE,
              reasons |-> <<Reason("Containerized production system with monitoring and active maintenance")>>]
        ELSE IF has_k8s /\ has_releases /\ has_protection /\ has_monitoring
        THEN [ok |-> TRUE,
              reasons |-> <<Reason("Kubernetes-based production system with release management")>>]
        ELSE [ok |-> FALSE, reasons |-> <<>>]

\* _is_tier_2
MutantTier2WithoutActivity(signals) ==
    LET has_cicd == Get(signals, "has_ci_cd")
        has_releases == Get(signals, "has_releases")
        has_protection == Get(signals, "has_branch_protection")
        multiple_contributors == Get(signals, "multiple_contributors")
        has_containers == Get(signals, "has_dockerfile") \/ Get(signals, "has_kubernetes_config")
        has_monitoring == Get(signals, "has_monitoring_config")
    IN  IF has_cicd /\ has_releases /\ has_protection /\ multiple_contributors
        THEN [ok |-> TRUE,
              reasons |-> <<Reason("Well-maintained codebase with release process and team collaboration")>>]
        ELSE IF has_containers /\ (has_monitoring \/ has_cicd)
        THEN [ok |-> TRUE,
              reasons |-> <<Reason("Containerized system with production indicators")>>]
        ELSE [ok |-> FALSE, reasons |-> <<>>]

is_tier_2(signals) ==
    LET has_cicd == Get(signals, "has_ci_cd")
        has_releases == Get(signals, "has_releases")
        has_protection == Get(signals, "has_branch_protection")
        multiple_contributors == Get(signals, "multiple_contributors")
        has_containers == Get(signals, "has_dockerfile") \/ Get(signals, "has_kubernetes_config")
        has_monitoring == Get(signals, "has_monitoring_config")
        is_active == Get(signals, "recent_commits_30d")
    IN  IF has_cicd /\ has_releases /\ has_protection /\ multiple_contributors
        THEN [ok |-> TRUE,
              reasons |-> <<Reason("Well-maintained codebase with release process and team collaboration")>>]
        ELSE IF has_containers /\ (has_monitoring \/ has_cicd) /\ is_active
        THEN [ok |-> TRUE,
              reasons |-> <<Reason("Containerized system with production indicators")>>]
        ELSE [ok |-> FALSE, reasons |-> <<>>]

\* _is_tier_3
is_tier_3(signals) ==
    LET has_tests == Get(signals, "has_tests")
        is_active == Get(signals, "recent_commits_30d")
        has_docs == Get(signals, "has_documentation")
        has_cicd == Get(signals, "has_ci_cd")
        multiple_contributors == Get(signals, "multiple_contributors")
    IN  IF has_tests /\ is_active /\ has_docs
        THEN [ok |-> TRUE,
              reasons |-> <<Reason("Active development with testing and documentation")>>]
        ELSE IF has_cicd /\ is_active
        THEN [ok |-> TRUE,
              reasons |-> <<Reason("Active development with automated testing")>>]
        ELSE IF is_active /\ multiple_contributors
        THEN [ok |-> TRUE, reasons |-> <<Reason("Actively maintained by team")>>]
        ELSE [ok |-> FALSE, reasons |-> <<>>]

production_signals ==
    {"has_dockerfile", "has_kubernetes_config", "has_environments", "has_releases",
     "has_monitoring_config", "has_branch_protection"}

development_signals ==
    {"has_ci_cd", "has_tests", "recent_commits_30d", "active_prs_30d",
     "multiple_contributors", "consistent_commit_pattern"}

security_signals ==
    {"has_security_scanning", "has_secret_scanning", "has_dependency_scanning",
     "has_sast_config"}

organization_signals ==
    {"has_documentation", "has_api_specs", "has_codeowners", "has_security_md"}

\* _calculate_confidence without the cap
MutantConfidenceUncapped(signals, tier) ==
    LET prod_count == Cardinality(signals \cap production_signals)
        dev_count == Cardinality(signals \cap development_signals)
        sec_count == Cardinality(signals \cap security_signals)
        org_count == Cardinality(signals \cap organization_signals)
    IN  CASE tier = 1 -> (prod_count * 15) + (dev_count * 5) + (sec_count * 5) + (org_count * 3)
          [] tier = 2 -> (prod_count * 10) + (dev_count * 10) + (sec_count * 5) + (org_count * 3)
          [] tier = 3 -> (prod_count * 5) + (dev_count * 12) + (sec_count * 5) + (org_count * 5)
          [] OTHER -> (prod_count * 3) + (dev_count * 5) + (sec_count * 3) + (org_count * 10)

\* _calculate_confidence
calculate_confidence(signals, tier) ==
    LET prod_count == Cardinality(signals \cap production_signals)
        dev_count == Cardinality(signals \cap development_signals)
        sec_count == Cardinality(signals \cap security_signals)
        org_count == Cardinality(signals \cap organization_signals)
        score ==
            CASE tier = 1 -> (prod_count * 15) + (dev_count * 5) + (sec_count * 5) + (org_count * 3)
              [] tier = 2 -> (prod_count * 10) + (dev_count * 10) + (sec_count * 5) + (org_count * 3)
              [] tier = 3 -> (prod_count * 5) + (dev_count * 12) + (sec_count * 5) + (org_count * 5)
              [] OTHER -> (prod_count * 3) + (dev_count * 5) + (sec_count * 3) + (org_count * 10)
    IN  Min(score, 100)

\* _build_result
build_result(self) ==
    [called |-> TRUE, tier |-> self.tier,
     business_criticality |-> TIER_MAPPING(self.tier),
     confidence_score |-> self.confidence_score, reasons |-> self.reasons]

\* the number of days without a commit past which a repository is archived
ArchivedAfterDays == 180

\* classify(signals, days_since_last_commit) on the instance self: the
\* instance after the call and the dictionary returned
MutantClassifyArchivedFrom180(self, signals, days) ==
    IF days # NoDays /\ days >= ArchivedAfterDays
    THEN [self |-> [self EXCEPT !.reasons = <<>>],
          result |-> [called |-> TRUE, tier |-> ArchivedTier,
                      business_criticality |-> TIER_MAPPING(ArchivedTier),
                      confidence_score |-> 100,
                      reasons |-> <<[text |-> "No commits in days", days |-> days]>>]]
    ELSE [self |-> self, result |-> build_result(self)]

classify(self, signals, days) ==
    LET t1 == is_tier_1(signals)
        t2 == is_tier_2(signals)
        t3 == is_tier_3(signals)
        \* the reasons the _is_tier_N calls made so far have appended
        tier == IF t1.ok THEN 1 ELSE IF t2.ok THEN 2 ELSE IF t3.ok THEN 3 ELSE 4
        reasons == IF t1.ok THEN t1.reasons
                   ELSE IF t2.ok THEN t2.reasons
                   ELSE IF t3.ok THEN t3.reasons
                   ELSE <<Reason("Does not meet criteria for higher tiers")>>
        after == [tier |-> tier,
                  confidence_score |-> calculate_confidence(signals, tier),
                  reasons |-> reasons]
    IN  IF days # NoDays /\ days # 0 /\ days > ArchivedAfterDays
        THEN [self |-> [self EXCEPT !.reasons = <<>>],
              result |-> [called |-> TRUE, tier |-> ArchivedTier,
                          business_criticality |-> TIER_MAPPING(ArchivedTier),
                          confidence_score |-> 100,
                          reasons |-> <<[text |-> "No commits in days", days |-> days]>>]]
        ELSE [self |-> after, result |-> build_result(after)]

\* the signals the tier branches read, and one that only the confidence
\* counts
TierSignals ==
    {"has_dockerfile", "has_kubernetes_config", "has_environments",
     "has_monitoring_config", "recent_commits_30d", "has_releases",
     "has_branch_protection", "has_ci_cd", "multiple_contributors", "has_tests",
     "has_documentation", "has_security_scanning"}

\* the longest time without a commit
MaxDays == 365

DaysValues == {NoDays, 0, ArchivedAfterDays - 1, ArchivedAfterDays, ArchivedAfterDays + 1, MaxDays}

\* a new TierClassifier and a repository of any signals and age
InitTier ==
    /\ tierInput \in [signals : SUBSET TierSignals, days : DaysValues]
    /\ tierLog = <<>>
    /\ scored = NoConfidence
    /\ classifier = NewClassifier
    /\ classified = NoClassification
    /\ now = 0
    /\ repository = <<>>
    /\ pool = {}
    /\ InitDB
    /\ InitSyncIdle
    /\ InitNoEngine
    /\ InitProjHistory
    /\ InitNoRace
    /\ InitNoCollector
    /\ InitNoDetector
    /\ InitNoUpdater
    /\ InitNoFindingFacts

\* classifier.classify(signals, days_since_last_commit)
Classify ==
    LET out == classify(classifier, tierInput.signals, tierInput.days)
    IN  /\ ~classified.called
        /\ classifier' = out.self
        /\ classified' = out.result
        /\ UNCHANGED <<now, pool, dbVars, syncVars, projVars, returned, triageVars, tierInput,
                       tierLog, scored, proc, collectVars, detVars, epssVars, factVars>>

NextTier == Classify

SpecTier == InitTier /\ [][NextTier]_vars

\* C13: for every signal set, a known days_since_last_commit above 180
\* gives tier 'archived' with business criticality 'none' and confidence
\* 100; with 180 days, fewer, or an unknown number the archived result is
\* never returned.
ArchivedExactlyAbove180Days ==
    classified.called =>
        IF tierInput.days # NoDays /\ tierInput.days > 180
        THEN /\ classified.tier = ArchivedTier
             /\ classified.business_criticality = "none"
             /\ classified.confidence_score = 100
        ELSE /\ classified.tier # ArchivedTier
             /\ classified.business_criticality # "none"

\* a repository that meets tier 1 was classified archived after 181 days
Tier1SignalsArchived ==
    /\ classified.called
    /\ tierInput.days = 181
    /\ is_tier_1(tierInput.signals).ok
    /\ classified.tier = ArchivedTier

\* the branch conditions of the tiers, signal by signal
Sig(name) == name \in tierInput.signals

Tier1Condition ==
    \/ /\ Sig("has_dockerfile") \/ Sig("has_kubernetes_config")
       /\ Sig("has_environments")
       /\ Sig("has_monitoring_config")
       /\ Sig("recent_commits_30d")
    \/ /\ Sig("has_kubernetes_config")
       /\ Sig("has_releases")
       /\ Sig("has_branch_protection")
       /\ Sig("has_monitoring_config")

Tier2Condition ==
    \/ /\ Sig("has_ci_cd")
       /\ Sig("has_releases")
       /\ Sig("has_branch_protection")
       /\ Sig("multiple_contributors")
    \/ /\ Sig("has_dockerfile") \/ Sig("has_kubernetes_config")
       /\ Sig("has_monitoring_config") \/ Sig("has_ci_cd")
       /\ Sig("recent_commits_30d")

Tier3Condition ==
    \/ Sig("has_tests") /\ Sig("recent_commits_30d") /\ Sig("has_documentation")
    \/ Sig("has_ci_cd") /\ Sig("recent_commits_30d")
    \/ Sig("recent_commits_30d") /\ Sig("multiple_contributors")

\* C14: a repository that is not archived gets exactly one tier: 1 when the
\* tier-1 condition holds, otherwise 2 when the tier-2 condition holds,
\* otherwise 3 when the tier-3 condition holds, otherwise 4; of several
\* conditions that hold, the lowest-numbered tier wins.
LowestMatchingTierReturned ==
    (classified.called /\ classified.tier # ArchivedTier) =>
        classified.tier = IF Tier1Condition THEN 1
                          ELSE IF Tier2Condition THEN 2
                          ELSE IF Tier3Condition THEN 3
                          ELSE 4

\* a repository that meets the conditions of tiers 2 and 3 but not of tier 1
\* was classified
Tier2And3ConditionsHold ==
    /\ classified.called
    /\ classified.tier = 2
    /\ ~Tier1Condition
    /\ Tier2Condition
    /\ Tier3Condition

----------------------------------------------------------------------------
(* collector.py: sync_all_repositories over the bulk and the per-resource
   transport *)

\* the keys of the dictionary _detect_signals_from_graphql returns
GraphqlSignalNames ==
    {"has_dockerfile", "has_kubernetes_config", "has_ci_cd", "has_terraform",
     "has_deployment_scripts", "has_environments", "has_monitoring", "has_releases",
     "recent_release_90d", "has_branch_protection", "has_codeowners", "recent_commits_30d",
     "recent_commits_90d", "active_contributors", "active_prs_30d", "has_dependabot",
     "has_tests", "has_documentation", "has_readme", "readme_length_500", "has_api_spec",
     "has_changelog", "has_security_policy", "has_secret_scanning", "has_sbom",
     "has_security_txt", "has_code_scanning", "has_package_manager", "has_license",
     "has_contributing_guide", "has_code_of_conduct", "has_issue_templates",
     "has_pr_template", "has_gitignore"}

\* the repositories of the organization, in the order the remote lists them
RepoNames == <<"org/a", "org/b">>

\* what the remote knows of a repository: the signals its files and settings
\* give, the days since its last commit, and whether it is archived there
Facts(name) ==
    IF name = "org/a"
    THEN [signals |-> {"has_dockerfile", "has_environments", "has_monitoring_config",
                       "recent_commits_30d"},
          days |-> 3, isArchived |-> FALSE]
    ELSE [signals |-> {}, days |-> ArchivedAfterDays + 1, isArchived |-> FALSE]

\* Product.objects.create(name, description, prod_type, github_url) at time t
NewProduct(t) ==
    [updated |-> t, has_github_url |-> TRUE, enriched |-> FALSE,
     days_since_last_commit |-> NoDays, business_criticality |-> "", lifecycle |-> ""]

\* the steps of the sync of one repository that can raise: over the bulk
\* transport the creation of the Product, the parsing of lastCommitDate, the
\* reading of the settings and the save; over the per-resource transport,
\* whose metadata, signal and readme steps catch what they raise, the
\* creation and the save
FailSteps(bulk) ==
    IF bulk THEN {"create", "metadata", "signals", "save"} ELSE {"create", "save"}

\* sync_repository (bulk false) and _sync_repository_from_graphql (bulk true)
\* at time t, with the step that raises, if any: the rows afterwards,
\* whether the call raised and what it returned
sync_repository(rows, types, name, failAt, t, bulk) ==
    LET exists == name \in DOMAIN rows
        types1 == IF exists THEN types ELSE types \cup {"org"}
        rows1 == IF exists THEN rows ELSE (name :> NewProduct(t)) @@ rows
        f == Facts(name)
        \* the bulk transport's dictionary lacks some of the names classify reads
        c == classify(NewClassifier,
                      IF bulk THEN f.signals \cap GraphqlSignalNames ELSE f.signals,
                      f.days).result
        retire == c.tier = ArchivedTier \/ (bulk /\ f.isArchived)
        saved == [rows1[name] EXCEPT
                     !.updated = t,
                     !.enriched = TRUE,
                     !.days_since_last_commit = f.days,
                     !.business_criticality = c.business_criticality,
                     !.lifecycle = IF retire THEN "retirement" ELSE @]
    IN  IF failAt = "create"
        THEN [raised |-> TRUE, created |-> FALSE, rows |-> rows, types |-> types1]
        ELSE IF failAt # "none"
        THEN [raised |-> TRUE, created |-> FALSE, rows |-> rows1, types |-> types1]
        ELSE [raised |-> FALSE, created |-> ~exists,
              rows |-> [rows1 EXCEPT ![name] = saved], types |-> types1]

\* the counter of stats a repository of the loop is counted in
counter_of(skipped, out) ==
    IF skipped THEN "skipped"
    ELSE IF out.raised THEN "errors"
    ELSE IF out.created THEN "created"
    ELSE "updated"

\* stats[key] += 1 without the except branch of the loop
MutantCountWithoutErrors(st, key) ==
    IF key = "errors" THEN st ELSE [st EXCEPT ![key] = @ + 1]

\* stats[key] += 1
count(st, key) == [st EXCEPT ![key] = @ + 1]

\* Product.objects.filter(github_url__isnull=False).order_by('-updated')
\* .first(), and its updated: the threshold of an incremental sync
updated_since(rows, incremental) ==
    LET with_url == {n \in DOMAIN rows : rows[n].has_github_url}
    IN  IF incremental /\ with_url # {}
        THEN CHOOSE t \in {rows[n].updated : n \in with_url} :
                \A n \in with_url : rows[n].updated <= t
        ELSE NoTime

\* get_organization_repositories against a remote that answers with the
\* pages `pages` and fails request number failAt (0: none fails): every
\* except branch returns the repositories parsed so far
get_organization_repositories(remote, pages, failAt, since) ==
    LET got == Flatten(IF failAt = 0 THEN pages ELSE SubSeq(pages, 1, failAt - 1))
        keep(n) == ~(since # NoTime /\ remote[n] <= since)
    IN  SelectSeq(got, keep)

\* _should_skip_repo
should_skip_repo(rows, remote, name) ==
    /\ name \in DOMAIN rows
    /\ rows[name].updated # NoTime
    /\ remote[name] <= rows[name].updated

\* the answers of the remote to a listing of the organization: its
\* repositories in pages, and the request that fails, if any
ListingAnswers ==
    UNION {{[pages |-> p, failAt |-> n] : n \in 0..Len(p)} : p \in Splits(RepoNames)}

\* the latest time of a collection
MaxCollectTime == 2

\* sync_all_repositories(incremental) of a collector made with use_graphql
SyncAllRepositories(incremental, use_graphql) ==
    /\ col.pc = "idle"
    /\ col' = [NoCollect EXCEPT !.pc = IF use_graphql THEN "graphql" ELSE "rest",
                                !.incremental = incremental,
                                !.use_graphql = use_graphql,
                                !.retry = col.retry]
    /\ UNCHANGED <<now, pool, dbVars, syncVars, projVars, returned, triageVars, tierVars,
                   proc, remoteRepos, products, productTypes, detVars, epssVars, factVars>>

\* _sync_all_with_graphql up to its loop: the threshold query, which the
\* database may fail, and the listing; the except branch falls back to the
\* per-resource transport
GraphqlList(ans, query_fails) ==
    /\ col.pc = "graphql"
    /\ query_fails => col.incremental
    /\ IF query_fails
       THEN col' = [col EXCEPT !.pc = "rest",
                               !.stats = [NewRepoStats EXCEPT !.errors = col.stats.errors + 1],
                               !.fellBack = TRUE]
       ELSE LET repos_data == get_organization_repositories(
                                  remoteRepos, ans.pages, ans.failAt,
                                  updated_since(products, col.incremental))
            IN  col' = [col EXCEPT !.pc = "graphql_loop",
                                   !.stats = [@ EXCEPT !.total_repos = Len(repos_data)],
                                   !.queue = repos_data,
                                   !.listed = repos_data,
                                   !.bulkFailedAt = ans.failAt]
    /\ UNCHANGED <<now, pool, dbVars, syncVars, projVars, returned, triageVars, tierVars,
                   proc, remoteRepos, products, productTypes, detVars, epssVars, factVars>>

\* one iteration of the loop of _sync_all_with_graphql
GraphqlSyncOne(failAt) ==
    /\ col.pc = "graphql_loop"
    /\ col.queue # <<>>
    /\ failAt = "create" => Head(col.queue) \notin DOMAIN products
    /\ LET name == Head(col.queue)
           out == sync_repository(products, productTypes, name, failAt, now, TRUE)
           key == counter_of(FALSE, out)
       IN  /\ products' = out.rows
           /\ productTypes' = out.types
           /\ col' = [col EXCEPT !.queue = Tail(@),
                                 !.stats = count(@, key),
                                 !.log = Append(@, [repo |-> name, counter |-> key])]
    /\ UNCHANGED <<now, pool, dbVars, syncVars, projVars, returned, triageVars, tierVars,
                   proc, remoteRepos, detVars, epssVars, factVars>>

\* the repositories whose last entry in the log of a run is a failure
FailedLast(log) ==
    {log[i].repo : i \in {k \in DOMAIN log :
                            /\ log[k].counter = "errors"
                            /\ \A j \in DOMAIN log : j > k => log[j].repo # log[k].repo}}

\* _sync_all_with_graphql returns stats
GraphqlReturn ==
    /\ col.pc = "graphql_loop"
    /\ col.queue = <<>>
    /\ col' = [col EXCEPT !.pc = "idle", !.done = TRUE,
                          !.retry = IF col.incremental /\ ~col.fellBack
                                    THEN FailedLast(col.log) ELSE {}]
    /\ UNCHANGED <<now, pool, dbVars, syncVars, projVars, returned, triageVars, tierVars,
                   proc, remoteRepos, products, productTypes, detVars, epssVars, factVars>>

\* _sync_all_with_rest up to its loop: get_organization and get_repos; the
\* request that fails raises GithubException when the loop reaches its page
RestList(ans) ==
    /\ col.pc = "rest"
    /\ LET repos == Flatten(IF ans.failAt = 0 THEN ans.pages
                            ELSE SubSeq(ans.pages, 1, ans.failAt - 1))
       IN  col' = [col EXCEPT !.pc = "rest_loop",
                              !.queue = repos,
                              !.listed = repos,
                              !.cut = ans.failAt # 0]
    /\ UNCHANGED <<now, pool, dbVars, syncVars, projVars, returned, triageVars, tierVars,
                   proc, remoteRepos, products, productTypes, detVars, epssVars, factVars>>

\* one iteration of the loop of _sync_all_with_rest
RestSyncOne(failAt) ==
    /\ col.pc = "rest_loop"
    /\ col.queue # <<>>
    /\ failAt = "create" => Head(col.queue) \notin DOMAIN products
    /\ LET name == Head(col.queue)
           skip == col.incremental /\ should_skip_repo(products, remoteRepos, name)
           out == IF skip
                  THEN [raised |-> FALSE, created |-> FALSE, rows |-> products,
                        types |-> productTypes]
                  ELSE sync_repository(products, productTypes, name, failAt, now, FALSE)
           key == counter_of(skip, out)
       IN  /\ skip => failAt = "none"
           /\ products' = out.rows
           /\ productTypes' = out.types
           /\ col' = [col EXCEPT !.queue = Tail(@),
                                 !.stats = count([@ EXCEPT !.total_repos = @ + 1], key),
                                 !.log = Append(@, [repo |-> name, counter |-> key])]
    /\ UNCHANGED <<now, pool, dbVars, syncVars, projVars, returned, triageVars, tierVars,
                   proc, remoteRepos, detVars, epssVars, factVars>>

\* the loop of _sync_all_with_rest ends: stats is returned, from the except
\* branch when the listing raised
RestReturn ==
    /\ col.pc = "rest_loop"
    /\ col.queue = <<>>
    /\ col' = [col EXCEPT !.pc = "idle",
                          !.done = TRUE,
                          !.stats = IF col.cut THEN count(@, "errors") ELSE @,
                          !.restFailed = col.cut,
                          !.retry = {}]
    /\ UNCHANGED <<now, pool, dbVars, syncVars, projVars, returned, triageVars, tierVars,
                   proc, remoteRepos, products, productTypes, detVars, epssVars, factVars>>

\* a push to a repository: the remote's updatedAt becomes the present
RemoteUpdate(name) ==
    /\ remoteRepos[name] # now
    /\ remoteRepos' = [remoteRepos EXCEPT ![name] = now]
    /\ col' = [col EXCEPT !.retry = @ \ {name}]
    /\ UNCHANGED <<now, pool, dbVars, syncVars, projVars, returned, triageVars, tierVars,
                   proc, products, productTypes, detVars, epssVars, factVars>>

\* time passes
CollectTick ==
    /\ now < MaxCollectTime
    /\ now' = now + 1
    /\ UNCHANGED <<pool, dbVars, syncVars, projVars, returned, triageVars, tierVars,
                   proc, collectVars, detVars, epssVars, factVars>>

\* an organization of two repositories, no Product yet
InitCollect ==
    /\ remoteRepos = [n \in {RepoNames[i] : i \in DOMAIN RepoNames} |-> 0]
    /\ products = <<>>
    /\ productTypes = {}
    /\ col = NoCollect
    /\ now = 0
    /\ repository = <<>>
    /\ pool = {}
    /\ InitDB
    /\ InitSyncIdle
    /\ InitNoEngine
    /\ InitProjHistory
    /\ InitNoClassifier
    /\ InitNoRace
    /\ InitNoDetector
    /\ InitNoUpdater
    /\ InitNoFindingFacts

NextCollect ==
    \/ \E incremental, use_graphql \in BOOLEAN : SyncAllRepositories(incremental, use_graphql)
    \/ \E ans \in ListingAnswers, query_fails \in BOOLEAN : GraphqlList(ans, query_fails)
    \/ \E failAt \in {"none"} \cup FailSteps(TRUE) : GraphqlSyncOne(failAt)
    \/ GraphqlReturn
    \/ \E ans \in ListingAnswers : RestList(ans)
    \/ \E failAt \in {"none"} \cup FailSteps(FALSE) : RestSyncOne(failAt)
    \/ RestReturn
    \/ \E name \in DOMAIN remoteRepos : RemoteUpdate(name)
    \/ CollectTick

SpecCollect == InitCollect /\ [][NextCollect]_vars

(* Claims about sync_all_repositories *)

\* the repositories the loop has processed, in order
Processed == [i \in 1..Len(col.log) |-> col.log[i].repo]

\* the number of repositories of the loop counted in a counter
Logged(key) == Cardinality({i \in 1..Len(col.log) : col.log[i].counter = key})

\* C22: a failure of the sync of one repository is caught and counted in
\* errors, and the repositories after it in the listing are processed; each
\* repository of the listing is counted in one of created, updated, skipped
\* and errors, and when no transport failed, their sum on return is
\* total_repos.
RepositoryFailuresCounted ==
    /\ Processed \o col.queue = col.listed
    /\ col.stats.created = Logged("created")
    /\ col.stats.updated = Logged("updated")
    /\ col.stats.skipped = Logged("skipped")
    /\ col.stats.errors = Logged("errors") + (IF col.fellBack THEN 1 ELSE 0)
                                            + (IF col.restFailed THEN 1 ELSE 0)
    /\ (col.done /\ col.bulkFailedAt = 0 /\ ~col.fellBack /\ ~col.restFailed)
          => /\ ~col.incremental => Processed = RepoNames
             /\ col.stats.total_repos = Len(col.listed)
             /\ col.stats.created + col.stats.updated + col.stats.skipped
                   + col.stats.errors = col.stats.total_repos

\* a run without a transport failure returned: the sync of the first
\* repository failed, the second was created
SecondSyncedAfterFailure ==
    /\ col.done
    /\ col.bulkFailedAt = 0 /\ ~col.fellBack /\ ~col.restFailed
    /\ Len(col.log) = 2
    /\ col.log[1].counter = "errors"
    /\ col.log[2].counter = "created"
    /\ col.stats.total_repos = 2

\* C23: when the bulk transport fails outright while the organization is
\* listed, the per-resource transport is used and the stats returned count
\* the bulk failure in errors.
BulkFailureFallsBack ==
    (col.done /\ col.bulkFailedAt = 1) => (col.fellBack /\ col.stats.errors >= 1)

\* C24: the sync of one repository that fails leaves the store as it was:
\* no Product or Product_Type row is new and no Product row is changed.
FailedSyncLeavesStore ==
    [][(Len(col'.log) = Len(col.log) + 1 /\ col'.log[Len(col'.log)].counter = "errors")
          => (products' = products /\ productTypes' = productTypes)]_vars

\* C37: a repository whose sync failed during an incremental
\* sync_all_repositories over the bulk transport is fetched and attempted
\* again by the next incremental sync_all_repositories, even when it did not
\* change on the remote in between and other repositories were synced.
FailedRepositoryFetchedAgain ==
    (col.pc = "graphql_loop" /\ col.incremental /\ col.bulkFailedAt = 0) =>
        \A name \in col.retry : \E i \in DOMAIN col.listed : col.listed[i] = name

----------------------------------------------------------------------------
(* signal_detector.py: detect_all_signals *)

\* the requests a SignalDetector makes, by what they fetch
Sources ==
    {"tree", "environments", "releases", "branch", "commits", "pulls", "readme",
     "vulnerability_alert"}

\* the paths of the file trees considered
TreePaths ==
    {"Dockerfile", "k8s/app.yaml", ".github/workflows/ci.yml", "main.tf", "deploy.sh",
     "Procfile", "prometheus.yml", "certs/site.pem", "migrations/0001.sql",
     "tests/test_app.py", "docs/index.md", "openapi.yaml", "CODEOWNERS", "SECURITY.md",
     "semgrep.yml", ".github/dependabot.yml", ".gitleaks.toml", ".semgrep.yml",
     "web/package.json", "api/package.json"}

\* the paths of TreePaths each pattern list matches: a pattern with '*' by
\* regex search, one ending in '/' as a prefix, any other as the whole path
PatternMatches(list) ==
    CASE list = "DOCKERFILE_PATTERNS" -> {"Dockerfile"}
      [] list = "KUBERNETES_PATTERNS" -> {"k8s/app.yaml"}
      [] list = "CI_CD_PATTERNS" -> {".github/workflows/ci.yml"}
      [] list = "TERRAFORM_PATTERNS" -> {"main.tf"}
      [] list = "DEPLOYMENT_SCRIPT_PATTERNS" -> {"deploy.sh"}
      [] list = "MONITORING_PATTERNS" -> {"prometheus.yml"}
      [] list = "SSL_PATTERNS" -> {"certs/site.pem"}
      [] list = "DATABASE_MIGRATION_PATTERNS" -> {"migrations/0001.sql"}
      [] list = "TEST_PATTERNS" -> {"tests/test_app.py"}
      [] list = "DOCS_PATTERNS[:-2]" -> {"docs/index.md"}
      [] list = "API_SPEC_PATTERNS" -> {"openapi.yaml", "api/package.json"}
      [] list = "SECURITY_PATTERNS" -> {"SECURITY.md"}
      [] list = "SECURITY_SCANNING_PATTERNS" -> {"semgrep.yml"}
      [] list = "GITLEAKS_PATTERNS" -> {".gitleaks.toml"}
      [] list = "SAST_PATTERNS" -> {".semgrep.yml"}

\* _cache_file_tree: the empty list when the tree cannot be fetched
cache_file_tree(f, failing) == IF "tree" \in failing THEN {} ELSE f.tree

\* _detect_pattern
detect_pattern(cache, list) == cache \cap PatternMatches(list) # {}

\* _detect_file_exact
detect_file_exact(cache, filename) == filename \in cache

\* _detect_github_environments without its try block
MutantDetectEnvironmentsRaises(f, failing) ==
    [raised |-> "environments" \in failing, value |-> f.environments > 0]

\* _detect_github_environments: whether it raised, and what it returned
detect_github_environments(f, failing) ==
    [raised |-> FALSE, value |-> "environments" \notin failing /\ f.environments > 0]

\* _detect_documentation
detect_documentation(f, cache, failing) ==
    LET has_docs_dir == detect_pattern(cache, "DOCS_PATTERNS[:-2]")
    IN  IF "readme" \in failing THEN has_docs_dir
        ELSE has_docs_dir \/ f.readme > 500

\* _detect_dependabot: the commits are read first, the pull requests only
\* when no commit is Dependabot's
detect_dependabot(f, failing) ==
    IF "commits" \in failing THEN FALSE
    ELSE IF f.commits = "dependabot" THEN TRUE
    ELSE IF "pulls" \in failing THEN FALSE
    ELSE f.pulls = "dependabot"

\* _detect_monorepo: package files of one kind in two directories
detect_monorepo(cache) ==
    Cardinality(cache \cap {"web/package.json", "api/package.json"}) >= 2

\* the commits of a repository: none, those of the last week by two
\* authors, or those of many weeks, some of them Dependabot's
CommitKinds == {"none", "recent", "dependabot"}

\* detect_all_signals on a repository with the facts f while the requests
\* for the sources in `failing` raise
detect_all_signals(f, failing) ==
    LET cache == cache_file_tree(f, failing)
        env == detect_github_environments(f, failing)
        ok(source) == source \notin failing
        signals ==
            [has_dockerfile |-> detect_pattern(cache, "DOCKERFILE_PATTERNS"),
             has_kubernetes_config |-> detect_pattern(cache, "KUBERNETES_PATTERNS"),
             has_ci_cd |-> detect_pattern(cache, "CI_CD_PATTERNS"),
             has_terraform |-> detect_pattern(cache, "TERRAFORM_PATTERNS"),
             has_deployment_scripts |-> detect_pattern(cache, "DEPLOYMENT_SCRIPT_PATTERNS"),
             has_procfile |-> detect_file_exact(cache, "Procfile"),
             has_environments |-> env.value,
             has_releases |-> ok("releases") /\ f.releases # "none",
             has_branch_protection |-> ok("branch") /\ f.protected,
             has_monitoring_config |-> detect_pattern(cache, "MONITORING_PATTERNS"),
             has_ssl_config |-> detect_pattern(cache, "SSL_PATTERNS"),
             has_database_migrations |-> detect_pattern(cache, "DATABASE_MIGRATION_PATTERNS"),
             recent_commits_30d |-> ok("commits") /\ f.commits \in {"recent", "dependabot"},
             active_prs_30d |-> ok("pulls") /\ f.pulls # "none",
             multiple_contributors |-> ok("commits") /\ f.commits \in {"recent", "dependabot"},
             has_dependabot_activity |-> detect_dependabot(f, failing),
             recent_releases_90d |-> ok("releases") /\ f.releases = "recent",
             consistent_commit_pattern |-> ok("commits") /\ f.commits = "dependabot",
             has_tests |-> detect_pattern(cache, "TEST_PATTERNS"),
             has_documentation |-> detect_documentation(f, cache, failing),
             has_api_specs |-> detect_pattern(cache, "API_SPEC_PATTERNS"),
             has_codeowners |-> detect_file_exact(cache, "CODEOWNERS")
                                   \/ detect_file_exact(cache, ".github/CODEOWNERS"),
             has_security_md |-> detect_pattern(cache, "SECURITY_PATTERNS"),
             is_monorepo |-> detect_monorepo(cache),
             has_security_scanning |-> detect_pattern(cache, "SECURITY_SCANNING_PATTERNS"),
             has_secret_scanning |-> ok("vulnerability_alert") /\ f.vulnerability_alert,
             has_dependency_scanning |-> detect_file_exact(cache, ".github/dependabot.yml")
                                            \/ detect_file_exact(cache, ".github/dependabot.yaml")
                                            \/ detect_file_exact(cache, "renovate.json")
                                            \/ detect_file_exact(cache, ".renovaterc"),
             has_gitleaks_config |-> detect_pattern(cache, "GITLEAKS_PATTERNS"),
             has_sast_config |-> detect_pattern(cache, "SAST_PATTERNS")]
    IN  IF env.raised
        THEN [called |-> TRUE, raised |-> TRUE, signals |-> <<>>]
        ELSE [called |-> TRUE, raised |-> FALSE, signals |-> signals]

\* the repositories detected: with every path or two of them or none, with
\* each setting on or off, with each kind of commits, with or without pull
\* requests, with a short or a long readme
DetectFacts ==
    [tree : {{}, {"docs/index.md", "Dockerfile"}, TreePaths},
     environments : {0, 2},
     releases : {"none", "recent"},
     protected : BOOLEAN,
     commits : CommitKinds,
     pulls : {"none", "dependabot"},
     readme : {0, 501},
     vulnerability_alert : {TRUE}]

\* SignalDetector(repo) for a repository, and the sources that will fail
InitDetect ==
    /\ detInput \in [facts : DetectFacts, failing : SUBSET Sources]
    /\ detected = NoDetection
    /\ paths = NoPaths
    /\ now = 0
    /\ repository = <<>>
    /\ pool = {}
    /\ InitDB
    /\ InitSyncIdle
    /\ InitNoEngine
    /\ InitProjHistory
    /\ InitNoClassifier
    /\ InitNoRace
    /\ InitNoCollector
    /\ InitNoUpdater
    /\ InitNoFindingFacts

\* signals = signal_detector.detect_all_signals()
DetectAllSignals ==
    /\ ~detected.called
    /\ detected' = detect_all_signals(detInput.facts, detInput.failing)
    /\ UNCHANGED <<now, pool, dbVars, syncVars, projVars, returned, triageVars, tierVars,
                   proc, collectVars, detInput, paths, epssVars, factVars>>

NextDetect == DetectAllSignals

SpecDetect == InitDetect /\ [][NextDetect]_vars

(* Claims about detect_all_signals *)

\* the names detect_all_signals assigns
SignalNames ==
    {"has_dockerfile", "has_kubernetes_config", "has_ci_cd", "has_terraform",
     "has_deployment_scripts", "has_procfile", "has_environments", "has_releases",
     "has_branch_protection", "has_monitoring_config", "has_ssl_config",
     "has_database_migrations", "recent_commits_30d", "active_prs_30d",
     "multiple_contributors", "has_dependabot_activity", "recent_releases_90d",
     "consistent_commit_pattern", "has_tests", "has_documentation", "has_api_specs",
     "has_codeowners", "has_security_md", "is_monorepo", "has_security_scanning",
     "has_secret_scanning", "has_dependency_scanning", "has_gitleaks_config",
     "has_sast_config"}

\* the sources a signal is computed from
SourcesOf(name) ==
    CASE name = "has_environments" -> {"environments"}
      [] name \in {"has_releases", "recent_releases_90d"} -> {"releases"}
      [] name = "has_branch_protection" -> {"branch"}
      [] name \in {"recent_commits_30d", "multiple_contributors",
                   "consistent_commit_pattern"} -> {"commits"}
      [] name = "active_prs_30d" -> {"pulls"}
      [] name = "has_dependabot_activity" -> {"commits", "pulls"}
      [] name = "has_documentation" -> {"tree", "readme"}
      [] name = "has_secret_scanning" -> {"vulnerability_alert"}
      [] OTHER -> {"tree"}

\* what detect_all_signals returns when nothing fails
Unfailing == detect_all_signals(detInput.facts, {}).signals

\* C25 as claimed: whatever sources fail, detect_all_signals raises nothing
\* and returns every signal name, with false for each signal that depends on
\* a failed source and every other signal as when nothing fails.
FailedSourceGivesFalse ==
    detected.called =>
        /\ ~detected.raised
        /\ DOMAIN detected.signals = SignalNames
        /\ \A name \in SignalNames :
              IF SourcesOf(name) \cap detInput.failing # {}
              THEN ~detected.signals[name]
              ELSE detected.signals[name] = Unfailing[name]

\* C25 as the code has it: whatever sources fail, detect_all_signals raises
\* nothing and returns every signal name; a signal none of whose sources
\* failed has the value it has when nothing fails; a failure turns no signal
\* on; a signal all of whose sources failed is false, and so is
\* has_dependabot_activity when the commits failed.  has_documentation and
\* has_dependabot_activity keep the value their other source gives.
FailedSourcesDegradeSignals ==
    detected.called =>
        /\ ~detected.raised
        /\ DOMAIN detected.signals = SignalNames
        /\ \A name \in SignalNames :
              /\ SourcesOf(name) \cap detInput.failing = {}
                    => detected.signals[name] = Unfailing[name]
              /\ detected.signals[name] => Unfailing[name]
              /\ SourcesOf(name) \subseteq detInput.failing => ~detected.signals[name]
        /\ "commits" \in detInput.failing => ~detected.signals["has_dependabot_activity"]
        /\ ("readme" \in detInput.failing /\ "tree" \notin detInput.failing)
              => detected.signals["has_documentation"]
                    = detect_pattern(detInput.facts.tree, "DOCS_PATTERNS[:-2]")

\* every settings request failed for a repository that has the settings,
\* and the signals of its file tree are as when nothing fails
SettingsFailedTreeSignalsKept ==
    /\ detected.called
    /\ detInput.failing = Sources \ {"tree"}
    /\ detInput.facts.environments > 0
    /\ detInput.facts.tree = TreePaths
    /\ detected.signals["has_dockerfile"]
    /\ detected.signals["has_documentation"]
    /\ ~detected.signals["has_environments"]

-----------------------------------------------------------------------------
(* epss_service/updater.py and epss_service/client.py *)

\* Scores are fixed-point numbers: hundredths of the interval [0, 1]
ScoreUnit == 100

\* EPSSUpdater.SIGNIFICANT_CHANGE_THRESHOLD, 0.2
SIGNIFICANT_CHANGE_THRESHOLD == 20

\* EPSSUpdater.BATCH_SIZE
BATCH_SIZE == 100

\* epss_score and epss_percentile of a finding that has none
NoScore == 0 - 1

EpssIds == {1, 2}

\* a cve field is null or a text; a text is a sequence of separators and
\* tokens (a token stands for a run of characters with no separator in it)
NullCve == [null |-> TRUE, text |-> <<>>]

CveText(text) == [null |-> FALSE, text |-> text]

CveFields ==
    {NullCve,
     CveText(<<>>),
     CveText(<<"CVE-2021-1">>),
     CveText(<<"cve-2021-2", ",", " ", "CVE-2021-1">>),
     CveText(<<" ", "CVE-2021-1", " ", "CVE-2021-2", " ">>),
     CveText(<<" ", " ">>),
     CveText(<<",", "CVE-2021-1">>),
     CveText(<<"GHSA-1">>)}

\* what the EPSS API can say of one CVE
ScoreData ==
    {[epss |-> 10, percentile |-> 50], [epss |-> 10, percentile |-> 90],
     [epss |-> 15, percentile |-> 50], [epss |-> 30, percentile |-> 50],
     [epss |-> 40, percentile |-> 90]}

\* str.strip()
RECURSIVE lstrip(_)
lstrip(s) == IF s # <<>> /\ Head(s) = " " THEN lstrip(Tail(s)) ELSE s

RECURSIVE rstrip(_)
rstrip(s) ==
    IF s # <<>> /\ s[Len(s)] = " " THEN rstrip(SubSeq(s, 1, Len(s) - 1)) ELSE s

strip(s) == rstrip(lstrip(s))

\* str.split(',')[0]
RECURSIVE first_of_split_comma(_)
first_of_split_comma(s) ==
    IF s = <<>> \/ Head(s) = "," THEN <<>>
    ELSE <<Head(s)>> \o first_of_split_comma(Tail(s))

\* str.split()
split(s) == SelectSeq(s, LAMBDA c : c # " ")

\* str.upper()
upper(w) ==
    CASE w = "cve-2021-1" -> "CVE-2021-1"
      [] w = "cve-2021-2" -> "CVE-2021-2"
      [] OTHER -> w

\* str.startswith('CVE-')
startswith_cve(w) == w \in {"CVE-2021-1", "CVE-2021-2"}

\* _get_findings_with_cves: the ids of the queryset, in id order
get_findings_with_cves(fields, active_only) ==
    SelectSeq(<<1, 2>>,
              LAMBDA i : /\ ~fields[i].cve.null
                         /\ fields[i].cve.text # <<>>
                         /\ (active_only => fields[i].active))

\* finding.cve.strip().split(',')[0].split()[0].upper(): indexing the empty
\* list raises IndexError
first_cve(text) ==
    LET words == split(first_of_split_comma(strip(text)))
    IN  IF words = <<>> THEN [raised |-> TRUE, cve |-> ""]
        ELSE [raised |-> FALSE, cve |-> upper(words[1])]

\* _extract_cves_from_findings: the dictionary finding id -> CVE, or the
\* exception the loop raised
RECURSIVE extract_cves_from_findings(_, _, _)
extract_cves_from_findings(ids, fields, cves) ==
    IF ids = <<>> THEN [raised |-> FALSE, cves |-> cves]
    ELSE LET f == fields[Head(ids)]
             c == first_cve(f.cve.text)
         IN  IF f.cve.null \/ f.cve.text = <<>>
             THEN extract_cves_from_findings(Tail(ids), fields, cves)
             ELSE IF c.raised THEN [raised |-> TRUE, cves |-> cves]
             ELSE IF startswith_cve(c.cve)
             THEN extract_cves_from_findings(Tail(ids), fields,
                                             cves @@ (Head(ids) :> c.cve))
             ELSE extract_cves_from_findings(Tail(ids), fields, cves)

\* the ways one request of the client can go: it answers; it fails with an
\* exception _fetch_batch catches (RequestException, or ValueError / KeyError
\* while the answer is parsed); it fails with another exception
LookupKinds == {"none", "request", "type"}

\* EPSSClient.get_scores for one batch (the model has at most
\* MAX_CVES_PER_REQUEST identifiers): _fetch_batch answers {} when the request
\* or the parsing of the answer fails, and lets any other exception through
get_scores(cve_batch, remote, kind) ==
    IF cve_batch = {} THEN [raised |-> FALSE, scores |-> <<>>]
    ELSE CASE kind = "none" ->
                [raised |-> FALSE,
                 scores |-> [c \in cve_batch \cap DOMAIN remote |-> remote[c]]]
           [] kind = "request" -> [raised |-> FALSE, scores |-> <<>>]
           [] OTHER -> [raised |-> TRUE, scores |-> <<>>]

\* _fetch_epss_scores: one batch per BATCH_SIZE identifiers (one batch here),
\* an exception of get_scores is counted
fetch_epss_scores(cves, remote, kind) ==
    IF cves = {} THEN [scores |-> <<>>, errors |-> 0]
    ELSE LET ans == get_scores(cves, remote, kind)
         IN  IF ans.raised THEN [scores |-> <<>>, errors |-> 1]
             ELSE [scores |-> ans.scores, errors |-> 0]

\* abs(new_epss - old_epss) >= self.SIGNIFICANT_CHANGE_THRESHOLD, compared strictly
MutantSignificantStrictly(new_epss, old_epss) ==
    LET d == new_epss - old_epss
    IN  (IF d < 0 THEN 0 - d ELSE d) > SIGNIFICANT_CHANGE_THRESHOLD

\* abs(new_epss - old_epss) >= self.SIGNIFICANT_CHANGE_THRESHOLD
is_significant_change(new_epss, old_epss) ==
    LET d == new_epss - old_epss
    IN  (IF d < 0 THEN 0 - d ELSE d) >= SIGNIFICANT_CHANGE_THRESHOLD

\* finding.epss_score or 0.0
old_epss_of(score) == IF score = NoScore \/ score = 0 THEN 0 ELSE score

Bump(st, key) == [st EXCEPT ![key] = @ + 1]

\* the unchanged branch does not skip the finding
MutantUnchangedWritten(f, new) == FALSE

\* finding.epss_score == new_epss and finding.epss_percentile == new_percentile
is_unchanged(f, new) ==
    /\ f.epss_score # NoScore
    /\ f.epss_score = new.epss
    /\ f.epss_percentile = new.percentile

\* the loop of _update_findings_with_scores; acc holds the rows, the stats
\* and what the loop did
RECURSIVE update_findings_with_scores(_, _, _, _, _, _)
update_findings_with_scores(ids, cves, scores, trigger_triage, failing, acc) ==
    IF ids = <<>> THEN acc
    ELSE LET i == Head(ids)
             f == acc.fields[i]
             rest == Tail(ids)
         IN  IF i \notin DOMAIN cves \/ cves[i] \notin DOMAIN scores
             THEN update_findings_with_scores(rest, cves, scores, trigger_triage,
                                              failing, acc)
             ELSE LET new == scores[cves[i]]
                      sig == is_significant_change(new.epss, old_epss_of(f.epss_score))
                  IN  IF is_unchanged(f, new)
                      THEN update_findings_with_scores(
                               rest, cves, scores, trigger_triage, failing,
                               [acc EXCEPT !.stats = Bump(@, "findings_unchanged")])
                      ELSE LET st1 == IF f.epss_score = NoScore
                                      THEN Bump(acc.stats, "findings_new_score")
                                      ELSE Bump(acc.stats, "findings_updated")
                               st2 == IF sig THEN Bump(st1, "significant_changes") ELSE st1
                               st3 == IF i \in failing THEN Bump(st2, "errors") ELSE st2
                           IN  update_findings_with_scores(
                                   rest, cves, scores, trigger_triage, failing,
                                   [fields |-> IF i \in failing THEN acc.fields
                                               ELSE [acc.fields EXCEPT
                                                       ![i].epss_score = new.epss,
                                                       ![i].epss_percentile = new.percentile],
                                    stats |-> st3,
                                    written |-> IF i \in failing THEN acc.written
                                                ELSE acc.written \cup {i},
                                    failed |-> IF i \in failing THEN acc.failed \cup {i}
                                               ELSE acc.failed,
                                    significant |-> IF sig THEN acc.significant \cup {i}
                                                    ELSE acc.significant,
                                    to_triage |-> IF sig /\ trigger_triage
                                                  THEN Append(acc.to_triage, i)
                                                  ELSE acc.to_triage])

\* the values of a function
Values(f) == {f[x] : x \in DOMAIN f}

\* update_all_findings of a new EPSSUpdater
update_all_findings(fields, remote, active_only, trigger_triage, kind, failing) ==
    LET ids == get_findings_with_cves(fields, active_only)
        st0 == [NewEpssStats EXCEPT !.total_findings = Len(ids)]
        ex == extract_cves_from_findings(ids, fields, <<>>)
        st1 == [st0 EXCEPT !.findings_with_cve = Cardinality(DOMAIN ex.cves),
                           !.unique_cves = Cardinality(Values(ex.cves))]
        got == fetch_epss_scores(Values(ex.cves), remote, kind)
        st2 == [st1 EXCEPT !.scores_fetched = Cardinality(DOMAIN got.scores),
                           !.errors = @ + got.errors]
        start == [fields |-> fields, stats |-> st2, written |-> {}, failed |-> {},
                  significant |-> {}, to_triage |-> <<>>]
        idle == [start EXCEPT !.stats = st0]
    IN  IF ids = <<>> THEN [raised |-> FALSE, fetched |-> <<>>, out |-> idle]
        ELSE IF ex.raised THEN [raised |-> TRUE, fetched |-> <<>>, out |-> idle]
        ELSE [raised |-> FALSE, fetched |-> got.scores,
              out |-> update_findings_with_scores(ids, ex.cves, got.scores,
                                                  trigger_triage, failing, start)]

MaxEpssRuns == 2

MaxScoreChanges == 1

InitEpss ==
    /\ epssFields \in
         {[i \in EpssIds |->
             [cve |-> IF i = 1 THEN c1 ELSE CveText(<<"CVE-2021-2">>),
              active |-> (i = 1 \/ a2),
              epss_score |-> NoScore, epss_percentile |-> NoScore]] :
          c1 \in CveFields, a2 \in BOOLEAN}
    /\ epssRemote \in {[c \in known |-> [epss |-> 10, percentile |-> 50]] :
                        known \in {{"CVE-2021-1"}, {"CVE-2021-1", "CVE-2021-2"}}}
    /\ upd = NoUpdate
    /\ now = 0
    /\ repository = <<>>
    /\ pool = {}
    /\ InitDB
    /\ InitSyncIdle
    /\ InitNoEngine
    /\ InitProjHistory
    /\ InitNoClassifier
    /\ InitNoRace
    /\ InitNoCollector
    /\ InitNoDetector
    /\ InitNoFindingFacts

\* updater = EPSSUpdater(epss_client); updater.update_all_findings(...)
UpdateAllFindings(active_only, trigger_triage, kind, failing) ==
    /\ upd.runs < MaxEpssRuns
    /\ \E run \in {update_all_findings(epssFields, epssRemote, active_only,
                                         trigger_triage, kind, failing)} :
           /\ epssFields' = run.out.fields
           /\ upd' = [stats |-> run.out.stats, runs |-> upd.runs + 1,
                      raised |-> run.raised, before |-> epssFields,
                      fetched |-> run.fetched, written |-> run.out.written,
                      failed |-> run.out.failed, significant |-> run.out.significant,
                      to_triage |-> run.out.to_triage, trigger |-> trigger_triage,
                      lookup |-> kind,
                      active_only |-> active_only, changes |-> upd.changes,
                      settled |-> ~run.raised /\ kind = "none" /\ failing = {}]
    /\ UNCHANGED <<now, pool, dbVars, syncVars, projVars, returned, triageVars, tierVars,
                   proc, collectVars, detVars, epssRemote, factVars>>

\* the EPSS API publishes its next data set
ScoreChange(d1, d2) ==
    /\ upd.runs < MaxEpssRuns
    /\ upd.changes < MaxScoreChanges
    /\ epssRemote' = ("CVE-2021-1" :> d1) @@ ("CVE-2021-2" :> d2)
    /\ epssRemote' # epssRemote
    /\ upd' = [upd EXCEPT !.settled = FALSE, !.changes = @ + 1]
    /\ UNCHANGED <<now, pool, dbVars, syncVars, projVars, returned, triageVars, tierVars,
                   proc, collectVars, detVars, epssFields, factVars>>

NextEpss ==
    \/ \E active_only \in BOOLEAN, trigger_triage \in BOOLEAN, kind \in LookupKinds,
          failing \in SUBSET EpssIds :
         UpdateAllFindings(active_only, trigger_triage, kind, failing)
    \/ \E d1 \in ScoreData, d2 \in {d \in ScoreData : d.percentile = 50 /\ d.epss < 30} :
         ScoreChange(d1, d2)

SpecEpss == InitEpss /\ [][NextEpss]_vars

(* Claims about the EPSS update *)

\* the findings the last run looked at
Selected ==
    {i \in EpssIds : /\ ~upd.before[i].cve.null
                     /\ upd.before[i].cve.text # <<>>
                     /\ (upd.active_only => upd.before[i].active)}

\* the findings of the last run whose identifier had a fetched score
Scored ==
    {i \in Selected : LET c == first_cve(upd.before[i].cve.text)
                      IN  ~c.raised /\ c.cve \in DOMAIN upd.fetched}

FetchedFor(i) == upd.fetched[first_cve(upd.before[i].cve.text).cve]

\* the fetched values differ from the stored score or the stored percentile
Differs(i) ==
    \/ upd.before[i].epss_score # FetchedFor(i).epss
    \/ upd.before[i].epss_percentile # FetchedFor(i).percentile

\* |new_score - old_score|, old_score 0 when none was stored
Delta(i) ==
    LET old == IF upd.before[i].epss_score = NoScore THEN 0 ELSE upd.before[i].epss_score
        d == FetchedFor(i).epss - old
    IN  IF d < 0 THEN 0 - d ELSE d

InSeq(x, q) == \E k \in 1..Len(q) : q[k] = x

RunEnded == upd.runs > 0 /\ ~upd.raised

MovedByThreshold ==
    /\ RunEnded
    /\ \E i \in Scored : upd.before[i].epss_score = 10 /\ FetchedFor(i).epss = 30

\* a finding whose stored score and percentile equal the fetched values is not
\* saved and is counted in findings_unchanged
UnchangedIsSkipped ==
    RunEnded =>
        /\ \A i \in Scored :
              ~Differs(i) =>
                  /\ i \notin upd.written \cup upd.failed \cup upd.significant
                  /\ epssFields[i] = upd.before[i]
        /\ upd.stats.findings_unchanged = Cardinality({i \in Scored : ~Differs(i)})

\* a run that follows a run which fetched and saved everything at least as
\* widely, with no publication in between, saves no finding and flags none
SecondRunWritesNothing ==
    (/\ upd'.runs = upd.runs + 1
     /\ upd.settled
     /\ (upd.active_only => upd'.active_only))
        => /\ upd'.written = {}
           /\ upd'.failed = {}
           /\ upd'.stats.significant_changes = 0
           /\ upd'.to_triage = <<>>
           /\ epssFields' = epssFields

LookupAndWriteFailuresCounted ==
    RunEnded =>
        upd.stats.errors =
            Cardinality(upd.failed)
              + (IF upd.lookup # "none" /\ upd.stats.unique_cves > 0 THEN 1 ELSE 0)

\* C29: for every non-null value of a finding's identifier field, identifier
\* extraction raises nothing: the malformed finding is left out of the lookup
\* and the other findings are still extracted and updated.
MalformedIdentifierLeftOut ==
    upd.runs > 0 => ~upd.raised

-----------------------------------------------------------------------------
(* auto_triage/rules.py: the default rule list *)

\* product.business_criticality of the finding's product; NoProduct when
\* get_product returns None
NoProduct == "no product"

Criticalities == {"very high", "high", "medium", "low", "none", NoProduct}

Severities == {"Critical", "High", "Medium", "Low", "Info"}

\* finding.epss_score in hundredths: None, and the least score of every
\* interval the thresholds of the rules cut, and 0.75
EpssLevels == {NoScore, 1, 2, 5, 10, 20, 30, 40, 50, 60, 70, 75}

\* product.days_since_last_commit
DormancyLevels == {NoDays, 180, 181}

\* what a Python condition does, from the truth value it returns
Truth(b) == IF b THEN "true" ELSE "false"

is_tier1_product(x) == x.criticality = "very high"

is_tier2_product(x) == x.criticality = "high"

is_tier3_product(x) == x.criticality = "medium"

is_tier4_product(x) == x.criticality = "low"

is_archived_product(x) == x.criticality = "none"

has_high_epss(x, threshold) == x.epss_score # NoScore /\ x.epss_score >= threshold

has_medium_epss(x, min_threshold, max_threshold) ==
    x.epss_score # NoScore /\ x.epss_score >= min_threshold /\ x.epss_score < max_threshold

has_low_epss(x, threshold) == x.epss_score # NoScore /\ x.epss_score < threshold

is_critical_or_high_severity(x) == x.severity \in {"Critical", "High"}

is_low_or_info_severity(x) == x.severity \in {"Low", "Info"}

\* has_production_signal with has_kubernetes_config alone
MutantProductionNeedsKubernetes(x) == x.criticality # NoProduct /\ x.has_kubernetes_config

\* has_kubernetes_config or has_environments or has_releases
has_production_signal(x) ==
    /\ x.criticality # NoProduct
    /\ (x.has_kubernetes_config \/ x.has_environments \/ x.has_releases)

\* recent_commits_30d and active_prs_30d and multiple_contributors
has_active_development(x) == x.criticality # NoProduct /\ x.active

is_dormant_repo(x, days_threshold) ==
    /\ x.criticality # NoProduct
    /\ x.days_since_last_commit # NoDays
    /\ x.days_since_last_commit > days_threshold

\* a rule of TRIAGE_RULES; outcome[f] is what its lambda does on finding f
DefaultRule(name, decision, confidence, outcome) ==
    Rule(name, decision, {"confidence"}, confidence, outcome)

\* the rules under CRITICAL ESCALATIONS and HIGH PRIORITY ESCALATIONS
EscalationRules(facts) ==
    <<DefaultRule("critical_high_epss_tier1", "ESCALATE", 95,
        [f \in DOMAIN facts |->
            Truth(/\ is_tier1_product(facts[f])
                  /\ has_high_epss(facts[f], 70)
                  /\ is_critical_or_high_severity(facts[f])
                  /\ has_production_signal(facts[f]))]),
      DefaultRule("high_epss_tier1_production", "ESCALATE", 90,
        [f \in DOMAIN facts |->
            Truth(/\ is_tier1_product(facts[f])
                  /\ has_high_epss(facts[f], 50)
                  /\ has_production_signal(facts[f]))]),
      DefaultRule("critical_severity_tier1", "ESCALATE", 85,
        [f \in DOMAIN facts |->
            Truth(/\ is_tier1_product(facts[f])
                  /\ is_critical_or_high_severity(facts[f])
                  /\ has_high_epss(facts[f], 30))]),
      DefaultRule("high_epss_tier2_production", "ESCALATE", 85,
        [f \in DOMAIN facts |->
            Truth(/\ is_tier2_product(facts[f])
                  /\ has_high_epss(facts[f], 60)
                  /\ has_production_signal(facts[f]))]),
      DefaultRule("critical_severity_tier2_active", "ESCALATE", 80,
        [f \in DOMAIN facts |->
            Truth(/\ is_tier2_product(facts[f])
                  /\ is_critical_or_high_severity(facts[f])
                  /\ has_high_epss(facts[f], 40)
                  /\ has_active_development(facts[f]))])>>

\* the rules under RISK ACCEPTANCE
RiskAcceptanceRules(facts) ==
    <<DefaultRule("accept_archived_repo", "ACCEPT_RISK", 95,
        [f \in DOMAIN facts |-> Truth(is_archived_product(facts[f]))]),
      DefaultRule("accept_dormant_low_risk", "ACCEPT_RISK", 85,
        [f \in DOMAIN facts |->
            Truth(/\ is_dormant_repo(facts[f], 180)
                  /\ has_low_epss(facts[f], 10)
                  /\ ~is_critical_or_high_severity(facts[f]))]),
      DefaultRule("accept_low_epss_tier4", "ACCEPT_RISK", 80,
        [f \in DOMAIN facts |->
            Truth(/\ is_tier4_product(facts[f])
                  /\ has_low_epss(facts[f], 5)
                  /\ is_low_or_info_severity(facts[f]))])>>

\* the rules under DISMISSALS.  The lambda of dismiss_info_severity_low_epss
\* reads the name `finding`, which is bound nowhere (its parameter is f): the
\* first conjunct raises NameError on every finding.
DismissalRules(facts) ==
    <<DefaultRule("dismiss_very_low_epss_tier3_or_4", "DISMISS", 85,
        [f \in DOMAIN facts |->
            Truth(/\ (is_tier3_product(facts[f]) \/ is_tier4_product(facts[f]))
                  /\ has_low_epss(facts[f], 2)
                  /\ ~is_critical_or_high_severity(facts[f]))]),
      DefaultRule("dismiss_info_severity_low_epss", "DISMISS", 90,
        [f \in DOMAIN facts |-> "raise"]),
      DefaultRule("dismiss_low_epss_tier4_no_production", "DISMISS", 80,
        [f \in DOMAIN facts |->
            Truth(/\ is_tier4_product(facts[f])
                  /\ has_low_epss(facts[f], 10)
                  /\ ~has_production_signal(facts[f]))])>>

\* the rules under MEDIUM PRIORITY.  The lambda of
\* review_high_severity_no_epss reads `finding` in its second conjunct: it
\* raises NameError when the first conjunct is true and is false otherwise.
ReviewRules(facts) ==
    <<DefaultRule("review_medium_epss_tier2", "PENDING", 70,
        [f \in DOMAIN facts |->
            Truth(/\ is_tier2_product(facts[f])
                  /\ has_medium_epss(facts[f], 20, 50))]),
      DefaultRule("review_high_severity_no_epss", "PENDING", 75,
        [f \in DOMAIN facts |->
            IF is_critical_or_high_severity(facts[f]) THEN "raise" ELSE "false"])>>

\* the rule under FALLBACK
FallbackRules(facts) ==
    <<DefaultRule("default_pending", "PENDING", 50, [f \in DOMAIN facts |-> "true"])>>

\* the list with the manual-review rules and the fallback ahead of the rest
MutantRulesReviewFirst(facts) ==
    ReviewRules(facts) \o FallbackRules(facts) \o EscalationRules(facts)
        \o RiskAcceptanceRules(facts) \o DismissalRules(facts)

\* TRIAGE_RULES
TRIAGE_RULES(facts) ==
    EscalationRules(facts) \o RiskAcceptanceRules(facts) \o DismissalRules(facts)
        \o ReviewRules(facts) \o FallbackRules(facts)

\* what the rules can read of a finding
FindingFacts ==
    [criticality : Criticalities, epss_score : EpssLevels, severity : Severities,
     has_kubernetes_config : BOOLEAN, has_environments : BOOLEAN, has_releases : BOOLEAN,
     active : BOOLEAN, days_since_last_commit : DormancyLevels]

\* a Critical finding of score 0.75 in a very-high-criticality product with
\* production signals
ExampleFacts ==
    [criticality |-> "very high", epss_score |-> 75, severity |-> "Critical",
     has_kubernetes_config |-> TRUE, has_environments |-> FALSE, has_releases |-> FALSE,
     active |-> FALSE, days_since_last_commit |-> NoDays]

\* AutoTriageEngine() over two findings: self.rules = TRIAGE_RULES
InitRules ==
    /\ findingFacts \in {(1 :> x) @@ (2 :> ExampleFacts) : x \in FindingFacts}
    /\ rules = TRIAGE_RULES(findingFacts)
    /\ triaged = NoTriage
    /\ triageFields = <<>>
    /\ InitNoApply
    /\ now = 0
    /\ repository = <<>>
    /\ pool = {}
    /\ InitDB
    /\ InitSyncIdle
    /\ InitProjHistory
    /\ InitNoClassifier
    /\ InitNoRace
    /\ InitNoCollector
    /\ InitNoDetector
    /\ InitNoUpdater

NextRules == \E f \in TriageFindings : TriageSingleFinding(f)

SpecRules == InitRules /\ [][NextRules]_vars

(* Claims about the default rule list *)

\* the place of a decision in the category order
CategoryRank(decision) ==
    CASE decision = "ESCALATE" -> 1
      [] decision = "ACCEPT_RISK" -> 2
      [] decision = "DISMISS" -> 3
      [] OTHER -> 4

EscalationExcludesDismissal ==
    \A f \in DOMAIN findingFacts :
        ~\E i, j \in Matching(f) :
            /\ rules[i].decision = "ESCALATE"
            /\ rules[j].decision \in {"ACCEPT_RISK", "DISMISS"}

\* the rule list decided the finding by the rule of that name
DecidedBy(name, decision, confidence) ==
    /\ triaged.result.rule_name = name
    /\ triaged.result.decision = decision
    /\ triaged.result.confidence = confidence

\* C31: a Critical finding of exploit score 0.75 whose product has business
\* criticality 'very high' and at least one production signal is decided
\* ESCALATE by critical_high_epss_tier1 with confidence 95, whatever its
\* other signals are.
ExampleIsEscalated ==
    triaged.finding # NoId =>
        LET x == findingFacts[triaged.finding]
        IN  (/\ x.severity = "Critical"
             /\ x.epss_score = 75
             /\ x.criticality = "very high"
             /\ (x.has_kubernetes_config \/ x.has_environments \/ x.has_releases))
                => DecidedBy("critical_high_epss_tier1", "ESCALATE", 95)

\* the example finding with releases as its only production signal, in an
\* active product that is dormant by its last commit, was escalated
ExampleEscalatedOnReleases ==
    /\ triaged.finding = 1
    /\ findingFacts[1] = [ExampleFacts EXCEPT !.has_kubernetes_config = FALSE,
                                              !.has_releases = TRUE,
                                              !.active = TRUE,
                                              !.days_since_last_commit = 181]
    /\ DecidedBy("critical_high_epss_tier1", "ESCALATE", 95)

\* the rules placed before dismiss_info_severity_low_epss
RulesBefore(name) == {i \in DOMAIN rules : \A j \in 1..i : rules[j].name # name}

\* C35: with the default rule list, a finding of severity 'Info' and exploit
\* score below 0.1 that matches none of the rules placed before
\* dismiss_info_severity_low_epss is decided DISMISS by that rule with
\* confidence 90.
InfoLowScoreDismissed ==
    triaged.finding # NoId =>
        LET x == findingFacts[triaged.finding]
        IN  (/\ x.severity = "Info"
             /\ x.epss_score # NoScore
             /\ x.epss_score < 10
             /\ Matching(triaged.finding) \cap RulesBefore("dismiss_info_severity_low_epss") = {})
                => DecidedBy("dismiss_info_severity_low_epss", "DISMISS", 90)

-----------------------------------------------------------------------------
(* tier_classifier.py: calls in sequence on one TierClassifier *)

\* classify without `self.reasons = []`: the reasons of the earlier calls stay
MutantClassifyKeepsReasons(self, signals, days) ==
    LET out == classify(self, signals, days)
        kept == [out.self EXCEPT !.reasons = self.reasons \o @]
    IN  IF out.result.tier = ArchivedTier THEN out
        ELSE [self |-> kept, result |-> build_result(kept)]

\* classifier.classify(signals, days_since_last_commit), as the collector calls it
classify_call(self, signals, days) == classify(self, signals, days)

\* one repository of every tier, and an archived one
SequenceInputs ==
    {[signals |-> {"has_dockerfile", "has_environments", "has_monitoring_config",
                   "recent_commits_30d"}, days |-> NoDays],
     [signals |-> {"has_ci_cd", "has_releases", "has_branch_protection",
                   "multiple_contributors"}, days |-> 0],
     [signals |-> {"has_tests", "recent_commits_30d", "has_documentation"},
      days |-> ArchivedAfterDays],
     [signals |-> {}, days |-> NoDays],
     [signals |-> {"has_dockerfile", "has_environments", "has_monitoring_config",
                   "recent_commits_30d"}, days |-> ArchivedAfterDays + 1]}

\* the most calls made on one instance
MaxClassifyCalls == 3

\* a new TierClassifier
InitClassifySequence ==
    /\ InitNoClassifier
    /\ now = 0
    /\ repository = <<>>
    /\ pool = {}
    /\ InitDB
    /\ InitSyncIdle
    /\ InitNoEngine
    /\ InitProjHistory
    /\ InitNoRace
    /\ InitNoCollector
    /\ InitNoDetector
    /\ InitNoUpdater
    /\ InitNoFindingFacts

\* one more classify call on the same instance
ClassifyAgain(input) ==
    /\ Len(tierLog) < MaxClassifyCalls
    /\ \E out \in {classify_call(classifier, input.signals, input.days)} :
          /\ tierInput' = input
          /\ classifier' = out.self
          /\ classified' = out.result
          /\ tierLog' = Append(tierLog, [input |-> input, result |-> out.result])
    /\ UNCHANGED <<now, pool, dbVars, syncVars, projVars, returned, triageVars, scored, proc,
                   collectVars, detVars, epssVars, factVars>>

NextClassifySequence == \E input \in SequenceInputs : ClassifyAgain(input)

SpecClassifySequence == InitClassifySequence /\ [][NextClassifySequence]_vars

\* C32: classify is deterministic and free of history effects: two calls on
\* one TierClassifier with equal (signals, days_since_last_commit) return equal
\* tier, business criticality, confidence and reasons, whatever was classified
\* in between.
EqualInputsEqualResults ==
    \A i, j \in DOMAIN tierLog :
        tierLog[i].input = tierLog[j].input => tierLog[i].result = tierLog[j].result

\* a tier-4 repository was classified before and after a tier-1 repository
SameInputAroundAnother ==
    /\ Len(tierLog) = 3
    /\ tierLog[1].input = tierLog[3].input
    /\ tierLog[1].result.tier = 4
    /\ tierLog[2].result.tier = 1
    /\ tierLog[3].result = tierLog[1].result

-----------------------------------------------------------------------------
(* tier_classifier.py: _calculate_confidence on its own *)

\* the four lists of _calculate_confidence
SignalCategories ==
    {production_signals, development_signals, security_signals, organization_signals}

\* the keys of the signals dictionary that are True: any choice within one
\* category, with none or all of each other category
ConfidenceInputs ==
    UNION {{x \cup UNION whole : x \in SUBSET c, whole \in SUBSET (SignalCategories \ {c})} :
           c \in SignalCategories}

\* the tiers classify passes
ConfidenceTiers == 1..4

InitConfidence ==
    /\ InitNoClassifier
    /\ now = 0
    /\ repository = <<>>
    /\ pool = {}
    /\ InitDB
    /\ InitSyncIdle
    /\ InitNoEngine
    /\ InitProjHistory
    /\ InitNoRace
    /\ InitNoCollector
    /\ InitNoDetector
    /\ InitNoUpdater
    /\ InitNoFindingFacts

\* self._calculate_confidence(signals, tier)
CalculateConfidence(signals, tier) ==
    /\ ~scored.called
    /\ scored' = [called |-> TRUE, signals |-> signals, tier |-> tier,
                  score |-> calculate_confidence(signals, tier)]
    /\ UNCHANGED <<now, pool, dbVars, syncVars, projVars, returned, triageVars, tierInput,
                   tierLog, classifier, classified, proc, collectVars, detVars, epssVars,
                   factVars>>

NextConfidence ==
    \E signals \in ConfidenceInputs, tier \in ConfidenceTiers :
        CalculateConfidence(signals, tier)

SpecConfidence == InitConfidence /\ [][NextConfidence]_vars

\* the weights of production, development, security and organization signals
\* the documentation gives for a tier
StatedWeights(tier) ==
    CASE tier = 1 -> <<15, 5, 5, 3>>
      [] tier = 2 -> <<10, 10, 5, 3>>
      [] tier = 3 -> <<5, 12, 5, 5>>
      [] tier = 4 -> <<3, 5, 3, 10>>

\* the signals the documentation counts, by category
StatedCategories ==
    <<{"has_dockerfile", "has_kubernetes_config", "has_environments", "has_releases",
       "has_monitoring_config", "has_branch_protection"},
      {"has_ci_cd", "has_tests", "recent_commits_30d", "active_prs_30d",
       "multiple_contributors", "consistent_commit_pattern"},
      {"has_security_scanning", "has_secret_scanning", "has_dependency_scanning",
       "has_sast_config"},
      {"has_documentation", "has_api_specs", "has_codeowners", "has_security_md"}>>

StatedSum(signals, tier) ==
    LET n(k) == Cardinality(signals \cap StatedCategories[k])
        w == StatedWeights(tier)
    IN  (w[1] * n(1)) + (w[2] * n(2)) + (w[3] * n(3)) + (w[4] * n(4))

\* C33: the confidence is min(100, wp*P + wd*D + ws*S + wo*O), an integer in
\* 0..100, over the counts of the 6 production, 6 development, 4 security and
\* 4 organization signals that are set, with the weights (15,5,5,3) for tier
\* 1, (10,10,5,3) for tier 2, (5,12,5,5) for tier 3 and (3,5,3,10) for tier 4;
\* a single production signal weighs strictly most in tier 1 and a single
\* organization signal strictly most in tier 4.
ConfidenceIsCappedWeightedSum ==
    scored.called =>
        /\ scored.score = Min(100, StatedSum(scored.signals, scored.tier))
        /\ scored.score \in 0..100
        /\ Cardinality(scored.signals) = 1 /\ scored.tier = 1 =>
              IF scored.signals \subseteq production_signals
              THEN scored.score = 15 ELSE scored.score < 15
        /\ Cardinality(scored.signals) = 1 /\ scored.tier = 4 =>
              IF scored.signals \subseteq organization_signals
              THEN scored.score = 10 ELSE scored.score < 10

\* a tier-1 score whose weighted sum is above 100 and was capped
WeightedSumCapped ==
    /\ scored.called
    /\ scored.tier = 1
    /\ Cardinality(scored.signals \cap production_signals) = 6
    /\ Cardinality(scored.signals \cap development_signals) = 3
    /\ StatedSum(scored.signals, 1) = 105
    /\ scored.score = 100

-----------------------------------------------------------------------------
(* findings_converter.py: the severity of the projected finding *)

\* the keys of SEVERITY_MAP
SeverityKeys ==
    {"critical", "high", "moderate", "medium", "low", "warning", "error", "note", "info"}

\* alert.severity: every key in lower case, in upper case and capitalised, a
\* string that is no key in the same three forms, one with a space around a
\* key, and the empty string (a missing severity: None and '' take the same
\* branch of `if github_severity`)
SeverityInputs ==
    SeverityKeys
    \cup {"CRITICAL", "HIGH", "MODERATE", "MEDIUM", "LOW", "WARNING", "ERROR", "NOTE", "INFO"}
    \cup {"Critical", "High", "Moderate", "Medium", "Low", "Warning", "Error", "Note", "Info"}
    \cup {"unknown", "UNKNOWN", "Unknown", " high", ""}

\* one repository and one alert of one taxonomy, whose severity the remote
\* may report as any of SeverityInputs
InitSeverity ==
    /\ repository = [r \in {1} |-> Repo(<<"test-org", "test-repo">>, TestOrgUrl, 123456, 1)]
    /\ \E t \in AlertTypes :
          pool = {<<1, t, AlertData("1", "open", sev, Str("A", 9), RawNull, RawNull)>> :
                    sev \in SeverityInputs}
    /\ InitDB
    /\ InitSyncIdle
    /\ InitNoEngine
    /\ InitProjHistory
    /\ InitNoClassifier
    /\ InitNoRace
    /\ InitNoCollector
    /\ InitNoDetector
    /\ InitNoUpdater
    /\ InitNoFindingFacts

NextSeverity ==
    \/ \E x \in pool : MirrorUpsert(x[1], x[2], x[3])
    \/ \E a \in alerts : Project(a)

SpecSeverity == InitSeverity /\ [][NextSeverity]_vars

\* the severity the documentation gives for a severity of the remote
StatedSeverity(lowered) ==
    CASE lowered = "critical" -> "Critical"
      [] lowered \in {"high", "error"} -> "High"
      [] lowered \in {"moderate", "medium"} -> "Medium"
      [] lowered \in {"low", "warning"} -> "Low"
      [] OTHER -> "Info"

\* the forms of one word that differ in case only
SameWord ==
    {{"critical", "CRITICAL", "Critical"}, {"high", "HIGH", "High"},
     {"moderate", "MODERATE", "Moderate"}, {"medium", "MEDIUM", "Medium"},
     {"low", "LOW", "Low"}, {"warning", "WARNING", "Warning"},
     {"error", "ERROR", "Error"}, {"note", "NOTE", "Note"}, {"info", "INFO", "Info"},
     {"unknown", "UNKNOWN", "Unknown"}}

\* the lower-case form of a severity, read off SameWord
Lowered(sev) ==
    IF \E w \in SameWord : sev \in w
    THEN CHOOSE k \in SeverityKeys \cup {"unknown"} : \E w \in SameWord : {sev, k} \subseteq w
    ELSE sev

\* C34: the projected finding of a secret alert has severity 'Critical'
\* whatever the alert's severity; the finding of any other alert has the
\* severity of the table critical -> Critical, high -> High, moderate/medium
\* -> Medium, low/warning -> Low, error -> High, note/info -> Info, read
\* without regard to case, and 'Info' for an unrecognized or missing one.
SeverityFollowsTable ==
    \A a \in LastProjected :
        FindingOf(a).severity =
            IF a.alert_type = "secret_scanning" THEN "Critical"
            ELSE StatedSeverity(Lowered(a.severity))

\* a code scanning alert whose severity the remote reported as 'ERROR' was
\* projected onto a finding of severity High
UpperCaseErrorProjectedHigh ==
    \E a \in LastProjected :
        /\ a.alert_type = "codeql"
        /\ a.severity = "ERROR"
        /\ ~lastProj.repeat
        /\ FindingOf(a).severity = "High"

-----------------------------------------------------------------------------
(* The projector beside the triage engine and the score updater *)

\* the database after the alert `d` of repository 1 was mirrored and projected
ProjectedOnce(d) ==
    LET m == create_or_update_alert({}, 1, 1, "dependabot", d)
        a == CHOOSE x \in m.rows : TRUE
    IN  create_or_update_finding([alerts |-> m.rows, findings |-> {}, nextFindingId |-> 1,
                                  engagements |-> {}, tests |-> {}], a).db

\* Finding 1 is the projection of a dependency alert with a CVE, not yet
\* triaged or scored; finding 2 comes from another tool.  One rule
\* escalates finding 1, and the EPSS API knows its CVE.
InitOwnership ==
    /\ repository = [r \in {1} |-> Repo(<<"test-org", "test-repo">>, TestOrgUrl, 123456, 1)]
    /\ pool = {<<1, "dependabot", StateData("1", s)>> : s \in {"open", "dismissed"}}
    /\ now = 0
    /\ cursor = <<>>
    /\ nextAlertId = 2
    /\ SetInitDB(ProjectedOnce(StateData("1", "open")))
    /\ InitSyncIdle
    /\ rules = <<Rule("escalate_a", "ESCALATE", {"confidence"}, 95,
                      [f \in TriageFindings |-> IF f = 1 THEN "true" ELSE "false"])>>
    /\ triaged = NoTriage
    /\ triageFields = [f \in TriageFindings |-> ResetFields]
    /\ InitNoApply
    /\ InitProjHistory
    /\ InitNoClassifier
    /\ InitNoRace
    /\ InitNoCollector
    /\ InitNoDetector
    /\ epssFields = [i \in EpssIds |->
                       [cve |-> IF i = 1 THEN CveText(<<"CVE-2021-1">>) ELSE NullCve,
                        active |-> TRUE, epss_score |-> NoScore, epss_percentile |-> NoScore]]
    /\ epssRemote = ("CVE-2021-1" :> [epss |-> 10, percentile |-> 50])
    /\ upd = NoUpdate
    /\ InitNoFindingFacts

NextOwnership ==
    \/ \E x \in pool : MirrorUpsert(x[1], x[2], x[3])
    \/ \E a \in alerts : RaceLookup(1, a)
    \/ RaceSave(1)
    \/ \E f \in TriageFindings : ApplyTriageToFinding(f, FALSE)
    \/ \E active_only \in BOOLEAN : UpdateAllFindings(active_only, FALSE, "none", {})

SpecOwnership == InitOwnership /\ [][NextOwnership]_vars

\* a create_or_update_finding call commits in this step
ProjectionCommits == \E w \in Workers : proc[w].pc = "looked" /\ proc'[w].pc = "idle"

\* C36: under every interleaving of create_or_update_finding with a triage
\* evaluation or a score update of the same finding, the decision, reason and
\* timestamp committed by the engine and the score committed by the updater
\* are still stored after the projection commits.
ProjectorKeepsOwnedFields ==
    [][ProjectionCommits =>
          \A f \in DOMAIN triageFields :
              /\ triageFields'[f] = triageFields[f]
              /\ epssFields'[f].epss_score = epssFields[f].epss_score
              /\ epssFields'[f].epss_percentile = epssFields[f].epss_percentile]_vars

-----------------------------------------------------------------------------
(* collector.py: the signals of the bulk and of the per-resource transport *)

\* the paths of TreePaths a list of _check_patterns matches: a pattern with
\* '*' by regex search, one ending in '/' as a prefix, any other as a
\* substring, all without regard to case
CheckMatches(list) ==
    CASE list = "DOCS_PATTERNS" -> {"docs/index.md"}
      [] list = "SECURITY.md" -> {"SECURITY.md"}
      [] list = "package.json" -> {"web/package.json", "api/package.json"}
      [] list = "codeql" -> {}
      [] list = "absent" -> {}
      [] OTHER -> PatternMatches(list)

\* _check_patterns
check_patterns(file_paths, list) == file_paths \cap CheckMatches(list) # {}

\* _detect_signals_from_graphql on the data the bulk transport parsed for a
\* repository with the facts f
detect_signals_from_graphql(f) ==
    LET file_paths == f.tree
        active == f.commits \in {"recent", "dependabot"}
    IN  [has_dockerfile |-> check_patterns(file_paths, "DOCKERFILE_PATTERNS"),
         has_kubernetes_config |-> check_patterns(file_paths, "KUBERNETES_PATTERNS"),
         has_ci_cd |-> check_patterns(file_paths, "CI_CD_PATTERNS"),
         has_terraform |-> check_patterns(file_paths, "TERRAFORM_PATTERNS"),
         has_deployment_scripts |-> check_patterns(file_paths, "DEPLOYMENT_SCRIPT_PATTERNS"),
         has_environments |-> f.environments > 0,
         has_monitoring |-> check_patterns(file_paths, "MONITORING_PATTERNS"),
         has_releases |-> f.releases # "none",
         recent_release_90d |-> f.releases = "recent",
         has_branch_protection |-> f.protected,
         has_codeowners |-> "CODEOWNERS" \in file_paths,
         recent_commits_30d |-> active,
         recent_commits_90d |-> active,
         active_contributors |-> active,
         active_prs_30d |-> f.pulls # "none",
         has_dependabot |-> f.pulls = "dependabot",
         has_tests |-> check_patterns(file_paths, "TEST_PATTERNS"),
         has_documentation |-> check_patterns(file_paths, "DOCS_PATTERNS"),
         has_readme |-> f.readme > 0,
         readme_length_500 |-> f.readme >= 500,
         has_api_spec |-> check_patterns(file_paths, "API_SPEC_PATTERNS"),
         has_changelog |-> check_patterns(file_paths, "absent"),
         has_security_policy |-> check_patterns(file_paths, "SECURITY.md"),
         has_secret_scanning |-> f.vulnerability_alert,
         has_sbom |-> check_patterns(file_paths, "absent"),
         has_security_txt |-> check_patterns(file_paths, "absent"),
         has_code_scanning |-> check_patterns(file_paths, "codeql"),
         has_package_manager |-> check_patterns(file_paths, "package.json"),
         has_license |-> check_patterns(file_paths, "absent"),
         has_contributing_guide |-> check_patterns(file_paths, "absent"),
         has_code_of_conduct |-> check_patterns(file_paths, "absent"),
         has_issue_templates |-> check_patterns(file_paths, "absent"),
         has_pr_template |-> check_patterns(file_paths, "absent"),
         has_gitignore |-> check_patterns(file_paths, "absent")]

\* the names signals.get(name, False) gives True for
TrueKeys(signals) == {name \in DOMAIN signals : signals[name]}

\* metadata['days_since_last_commit'] on either transport
days_since_last_commit(f) == IF f.commits = "none" THEN NoDays ELSE 3

\* the repositories synced over both transports: those of DetectFacts, and
\* with the files of the documented example
PathFacts ==
    [tree : {{}, {"Dockerfile", "prometheus.yml"}, {"docs/index.md", "Dockerfile"}, TreePaths},
     environments : {0, 2},
     releases : {"none", "recent"},
     protected : BOOLEAN,
     commits : CommitKinds,
     pulls : {"none", "dependabot"},
     readme : {0, 501},
     vulnerability_alert : {TRUE}]

\* a collector and a repository whose requests all succeed
InitPaths ==
    /\ detInput \in [facts : PathFacts, failing : {{}}]
    /\ detected = NoDetection
    /\ paths = NoPaths
    /\ now = 0
    /\ repository = <<>>
    /\ pool = {}
    /\ InitDB
    /\ InitSyncIdle
    /\ InitNoEngine
    /\ InitProjHistory
    /\ InitNoClassifier
    /\ InitNoRace
    /\ InitNoCollector
    /\ InitNoUpdater
    /\ InitNoFindingFacts

\* sync_repository(repo), to the classification it stores
SyncRepository ==
    /\ ~paths["rest"].called
    /\ \E det \in {detect_all_signals(detInput.facts, detInput.failing)} :
          /\ ~det.raised
          /\ detected' = det
          /\ \E c \in {classify(NewClassifier, TrueKeys(det.signals),
                                  days_since_last_commit(detInput.facts)).result} :
                paths' = [paths EXCEPT !["rest"] =
                            [called |-> TRUE, signals |-> TrueKeys(det.signals),
                             business_criticality |-> c.business_criticality]]
    /\ UNCHANGED <<now, pool, dbVars, syncVars, projVars, returned, triageVars, tierVars,
                   proc, collectVars, detInput, epssVars, factVars>>

\* _sync_repository_from_graphql(repo_data), to the classification it stores
SyncRepositoryFromGraphql ==
    /\ ~paths["bulk"].called
    /\ \E signals \in {detect_signals_from_graphql(detInput.facts)} :
          \E c \in {classify(NewClassifier, TrueKeys(signals),
                               days_since_last_commit(detInput.facts)).result} :
              paths' = [paths EXCEPT !["bulk"] =
                          [called |-> TRUE, signals |-> TrueKeys(signals),
                           business_criticality |-> c.business_criticality]]
    /\ UNCHANGED <<now, pool, dbVars, syncVars, projVars, returned, triageVars, tierVars,
                   proc, collectVars, detInput, detected, epssVars, factVars>>

NextPaths == SyncRepository \/ SyncRepositoryFromGraphql

SpecPaths == InitPaths /\ [][NextPaths]_vars

\* the names TierClassifier reads with signals.get
ClassifierReads ==
    production_signals \cup development_signals \cup security_signals
        \cup organization_signals

\* C38: for the same repository facts the bulk and the per-resource sync hand
\* TierClassifier the same value for every signal name it reads and store the
\* same business criticality; a repository with a Dockerfile, environments, a
\* monitoring config file and a commit in the last 30 days is stored as
\* 'very high' by either path.
BothPathsClassifyAlike ==
    (paths["bulk"].called /\ paths["rest"].called) =>
        /\ \A name \in ClassifierReads :
              (name \in paths["bulk"].signals) = (name \in paths["rest"].signals)
        /\ paths["bulk"].business_criticality = paths["rest"].business_criticality
        /\ ({"Dockerfile", "prometheus.yml"} \subseteq detInput.facts.tree
             /\ detInput.facts.environments > 0
             /\ detInput.facts.commits # "none")
               => /\ paths["bulk"].business_criticality = "very high"
                  /\ paths["rest"].business_criticality = "very high"

----------------------------------------------------------------------------
(* engine.py: reset_triage_decisions and the counters of one run *)

\* C39: reset_triage_decisions called with a list of finding ids sets the
\* decision PENDING, an empty reason and no timestamp on exactly the findings
\* whose id is in the list, for every list including the empty one, and
\* leaves the triage fields of every other finding unchanged; called without
\* a list it resets every finding.
ResetExactlyListed ==
    [][/\ \A ids \in SUBSET TriageFindings :
             ResetTriageDecisions(TRUE, ids) =>
                 \A f \in DOMAIN triageFields :
                     triageFields'[f] = IF f \in ids THEN ResetFields
                                        ELSE triageFields[f]
       /\ ResetTriageDecisions(FALSE, {}) =>
             \A f \in DOMAIN triageFields : triageFields'[f] = ResetFields]_vars

\* one rule for each decision a rule can write, under every value their
\* conditions return
CounterRules ==
    {<<Rule("dismiss_r", "DISMISS", {}, 0, c),
       Rule("escalate_r", "ESCALATE", {}, 0, d),
       Rule("accept_r", "ACCEPT_RISK", {}, 0, e)>> :
        c \in [TriageFindings -> Returns], d \in [TriageFindings -> Returns],
        e \in [TriageFindings -> Returns]}

\* a new engine over findings whose triage fields were reset
InitCounters ==
    /\ rules \in CounterRules
    /\ triaged = NoTriage
    /\ triageFields = [f \in TriageFindings |-> ResetFields]
    /\ InitNoApply
    /\ repository = <<>>
    /\ pool = {}
    /\ InitDB
    /\ InitSyncIdle
    /\ InitProjHistory
    /\ InitNoClassifier
    /\ InitNoRace
    /\ InitNoCollector
    /\ InitNoDetector
    /\ InitNoUpdater
    /\ InitNoFindingFacts

NextCounters ==
    \/ \E f \in TriageFindings, fails \in BOOLEAN : ApplyTriageToFinding(f, fails)
    \/ \E i \in 1..3, f \in TriageFindings, o \in Returns : SignalChange(i, f, o)
    \/ NewEngine

SpecCounters == InitCounters /\ [][NextCounters]_vars

\* C40: after the passes of one new engine over N findings the counters
\* dismissed, escalated, accepted_risk, pending and errors add up to N, each
\* pass having incremented exactly one of them; a finding whose stored
\* decision did not change is counted in pending whatever its decision, so
\* dismissed, escalated and accepted_risk count the findings whose stored
\* decision this engine changed to that value.
EachFindingCountedOnce ==
    LET run == applied.run
    IN  /\ Counted(stats) = run.passes
        /\ stats.dismissed = run.written.DISMISS
        /\ stats.escalated = run.written.ESCALATE
        /\ stats.accepted_risk = run.written.ACCEPT_RISK
        /\ stats.errors = run.raised
        /\ stats.pending = run.passes - run.raised - run.written.DISMISS
                               - run.written.ESCALATE - run.written.ACCEPT_RISK

\* a new engine took two findings: the last kept its stored decision DISMISS
\* and was counted in pending, the other was written as an accepted risk
UnchangedDismissCountedPending ==
    /\ applied.run.passes = 2
    /\ applied.outcome = "unchanged"
    /\ applied.data.decision = "DISMISS"
    /\ stats.pending = 1
    /\ stats.dismissed = 0
    /\ stats.accepted_risk = 1

====
